---- MODULE Spec2Model ----
(***************************************************************************)
(* AMQP link management of the IoT SDK: SenderLink, AmqpReceiverLinkFsm    *)
(* and ClaimsBasedSecurityAgent, each a machina finite-state machine.      *)
(*                                                                         *)
(* The program is single threaded: every public method, promise reaction,  *)
(* emitted event and process.nextTick callback runs to completion.  One    *)
(* action of this module is one such run.  Handlers call each other        *)
(* synchronously (a callback may drive another state machine, which may    *)
(* call back into a link), so each handler is an operator from a world w   *)
(* (a record holding every field of the program) to the world it leaves,   *)
(* and an action applies one operator to the current world.                *)
(*                                                                         *)
(* A JavaScript exception is the field exc of the world: once it is set    *)
(* the remaining statements of every enclosing handler are skipped until   *)
(* a catch, a promise reaction or the event loop is reached.  An exception *)
(* that reaches the event loop from a process.nextTick callback or from an *)
(* emitted event is an uncaught exception: the process ends (crashed).     *)
(***************************************************************************)
EXTENDS Integers, Sequences, FiniteSets, TLC

\* Bounds of the exploration
MaxCalls == 5
MaxSend == 2
MaxCreate == 3
MaxMessage == 1
MaxPut == 2
MaxCbsCalls == 3
MaxCbsCreate == 2
MaxAdvance == 1
MaxTwinCalls == 3
MaxTwinListeners == 2
MaxTwinRequests == 1
MaxTwinLinks == 4
MaxTwinMessage == 1

\* PutTokenStatus: numberOfSecondsToTimeout (seconds) and
\* putTokenTimeOutExaminationInterval (milliseconds)
numberOfSecondsToTimeout == 120
putTokenTimeOutExaminationInterval == 10000

\* Date.now() / 1000: the clock of the model counts seconds
MillisecondsPerSecond == 1000

\* Amounts of time that pass between two steps, in seconds: one examination
\* interval, or just more than the time a put token is given
TimeSteps ==
  {putTokenTimeOutExaminationInterval \div MillisecondsPerSecond, numberOfSecondsToTimeout + 1}

\* Error values handed to callbacks
None == "none"
FakeErr == "FakeErr"
ConnErr == "ConnErr"
LinkDetached == "LinkDetached"
TypeError == "TypeError"
SendErr == "SendErr"
UnauthorizedError == "UnauthorizedError"
TimeoutError == "TimeoutError"
ReferenceError == "ReferenceError"
ArgumentError == "ArgumentError"
InternalError == "amqp:internal-error"
UnauthorizedAccess == "amqp:unauthorized-access"

\* AmqpTwinReceiver event names
errorEvent == "error"
responseEvent == "response"
postEvent == "post"
subscribedEvent == "subscribed"

\* The events the program adds listeners to and removes them from
TwinEvents == {responseEvent, postEvent}

\* Callback values: a record naming the closure and what it closes over
NoCb == [k |-> "none", id |-> 0]
UserAttachCb(i) == [k |-> "uAttach", id |-> i]
UserSendCb(i) == [k |-> "uSend", id |-> i]
UserMessageCb(i) == [k |-> "uMessage", id |-> i]
UserAcceptCb(i) == [k |-> "uAccept", id |-> i]
ReceiverAttachDone == [k |-> "rAttachDone", id |-> 0]
ReceiverListenerCb == [k |-> "rNewListener", id |-> 0]
UserPutCb(i) == [k |-> "uPut", id |-> i]
UserDetachCb(i) == [k |-> "uDetach", id |-> i]
CbsSenderAttachCb(e) == [k |-> "cSAttach", id |-> e]
CbsReceiverAttachCb(e) == [k |-> "cRAttach", id |-> e]
CbsSendCb(j) == [k |-> "cSend", id |-> j]
CbsMessageCb == [k |-> "cMessage", id |-> 0]
UserTwinCb(i) == [k |-> "uTwin", id |-> i]
TwinHandleErrorCb == [k |-> "tHandleError", id |-> 0]

VARIABLES
  uses,              \* the object the program constructed and drives
  sState,            \* SenderLink._fsm.state
  sInExit,           \* machina inExitHandler of SenderLink._fsm
  sInputQueue,       \* machina inputQueue of SenderLink._fsm (deferred inputs)
  sLinkObject,       \* SenderLink._linkObject, 0 is null/undefined
  sMessageQueue,     \* SenderLink._messageQueue
  sAttachError,      \* SenderLink._attachError
  sAttachCallback,   \* SenderLink._attachCallback
  sCreates,          \* createSender promises not yet settled, with the connectionError each closure captured
  sCreated,          \* number of createSender calls so far
  sClientListeners,  \* clientErrorHandler listeners left on client:errorReceived
  sDetachListeners,  \* link objects that carry SenderLink._detachHandler
  sInflight,         \* linkObject.send promises not yet settled
  linkSent,          \* messages handed to linkObject.send, in call order
  ticks,             \* process.nextTick queue
  log,               \* user callbacks invoked so far, in order
  sendsIssued,       \* number of SenderLink.send calls made by the user
  attachIssued,      \* number of SenderLink.attach calls made by the user
  calls,             \* number of public method calls made by the user
  rState,            \* AmqpReceiverLinkFsm._fsm.state
  rInExit,           \* machina inExitHandler of AmqpReceiverLinkFsm._fsm
  rInputQueue,       \* machina inputQueue of AmqpReceiverLinkFsm._fsm
  rLinkObject,       \* AmqpReceiverLinkFsm._linkObject, 0 is null/undefined
  rAttachCallback,   \* AmqpReceiverLinkFsm._attachCallback
  rCreates,          \* createReceiver promises not yet settled, with the connectionError each closure captured
  rCreated,          \* number of createReceiver calls so far
  rClientListeners,  \* clientErrorHandler listeners left on client:errorReceived
  rLinkListeners,    \* link objects that carry _detachHandler, _messageHandler and _errorHandler
  rMessageListeners, \* listeners of the 'message' event of the AmqpReceiverLinkFsm, in registration order
  rErrorListener,    \* somebody listens to the 'error' event of the AmqpReceiverLinkFsm
  accepted,          \* messages handed to linkObject.accept, in call order
  listenIssued,      \* number of 'message' listeners the user has registered
  messagesIn,        \* number of messages the receiver link object has emitted
  cState,            \* ClaimsBasedSecurityAgent._fsm.state
  cInputQueue,       \* machina inputQueue of ClaimsBasedSecurityAgent._fsm
  cAttachCallback,   \* ClaimsBasedSecurityAgent._attachCallback
  cEpisodes,         \* senderAttached and receiverAttached of each attaching._onEnter call
  outstandingPutTokens, \* _putToken.outstandingPutTokens
  timeoutTimer,      \* _putToken.timeoutTimer, 0 before the first setTimeout
  timers,            \* timers armed by setTimeout and not yet fired or cleared
  advances,          \* number of times the clock has been advanced
  now,               \* Date.now() in seconds
  putCalls,          \* number of putToken calls made by the user
  uuids,             \* number of uuid.v4() message ids generated
  received,          \* $cbs responses the receiver link has delivered so far
  tState,            \* AmqpTwinReceiver._fsm.state
  tInputQueue,       \* machina inputQueue of AmqpTwinReceiver._fsm
  tListeners,        \* EventEmitter.listenerCount of the AmqpTwinReceiver, by event name
  tDownstreamAmqpLink, \* AmqpTwinReceiver._downstreamAmqpLink, 0 is null
  tUpstreamAmqpLink, \* AmqpTwinReceiver._upstreamAmqpLink, 0 is null
  tInternalOperations, \* AmqpTwinReceiver._internalOperations: correlation id and continuation
  tDetachedListeners, \* link objects that carry a bound _onAmqpDetached
  tMessageListeners, \* link objects that carry _boundMessageHandler, one entry per listener
  tAttaches,         \* attachReceiverLink and attachSenderLink calls the client has not answered
  tDetaches,         \* detachSenderLink and detachReceiverLink calls the client has not answered
  tLinks,            \* kind of every link object the client has handed out, by identity
  tAttached,         \* link objects that are attached at the client
  tInflight,         \* done callbacks of upstream link send promises not yet settled
  tSent,             \* messages handed to the upstream link send during the last step, in call order
  tEmitted,          \* events the AmqpTwinReceiver emitted during the last step, in order
  tRequests,         \* number of sendTwinRequest calls made by the user
  tMessagesIn,       \* number of messages the downstream link objects have emitted
  tReceived,         \* the message a downstream link object emitted in the last step, if any
  op,                \* the public method or event of the last step
  visited,           \* states SenderLink._fsm entered during the last step
  failed,            \* attach failures of the last step: error, _messageQueue then
  raised,            \* exception the last step raised to its caller
  crashed            \* an uncaught exception ended the process

twinVars == <<tState, tInputQueue, tListeners, tDownstreamAmqpLink, tUpstreamAmqpLink, tInternalOperations,
              tDetachedListeners, tMessageListeners, tAttaches, tDetaches, tLinks, tAttached,
              tInflight, tSent, tEmitted, tRequests, tMessagesIn, tReceived>>

vars == <<twinVars, cState, cInputQueue, cAttachCallback, cEpisodes, outstandingPutTokens,
          timeoutTimer, timers, advances, now, putCalls, uuids, received, op,
          uses, rState, rInExit, rInputQueue, rLinkObject, rAttachCallback, rCreates,
          rCreated, rClientListeners, rLinkListeners, rMessageListeners,
          rErrorListener, accepted, listenIssued, messagesIn,
          sState, sInExit, sInputQueue, sLinkObject, sMessageQueue, sAttachError,
          sAttachCallback, sCreates, sCreated, sClientListeners, sDetachListeners,
          sInflight, linkSent, ticks, log, sendsIssued, attachIssued, calls,
          visited, failed, raised, crashed>>

\* The world: every field of the program, plus exc, the exception in flight
World ==
  [sState |-> sState, sInExit |-> sInExit, sInputQueue |-> sInputQueue,
   sLinkObject |-> sLinkObject, sMessageQueue |-> sMessageQueue,
   sAttachError |-> sAttachError, sAttachCallback |-> sAttachCallback,
   sCreates |-> sCreates, sCreated |-> sCreated,
   sClientListeners |-> sClientListeners, sDetachListeners |-> sDetachListeners,
   sInflight |-> sInflight, linkSent |-> linkSent, ticks |-> ticks, log |-> log,
   sendsIssued |-> sendsIssued, attachIssued |-> attachIssued,
   calls |-> calls,
   rState |-> rState, rInExit |-> rInExit, rInputQueue |-> rInputQueue,
   rLinkObject |-> rLinkObject, rAttachCallback |-> rAttachCallback,
   rCreates |-> rCreates, rCreated |-> rCreated,
   rClientListeners |-> rClientListeners, rLinkListeners |-> rLinkListeners,
   rMessageListeners |-> rMessageListeners, rErrorListener |-> rErrorListener,
   accepted |-> accepted, listenIssued |-> listenIssued, messagesIn |-> messagesIn,
   cState |-> cState, cInputQueue |-> cInputQueue,
   cAttachCallback |-> cAttachCallback, cEpisodes |-> cEpisodes,
   outstandingPutTokens |-> outstandingPutTokens, timeoutTimer |-> timeoutTimer,
   timers |-> timers, advances |-> advances, now |-> now,
   putCalls |-> putCalls, uuids |-> uuids, received |-> received, op |-> "",
   tState |-> tState,
   tInputQueue |-> tInputQueue,
   tListeners |-> tListeners,
   tDownstreamAmqpLink |-> tDownstreamAmqpLink,
   tUpstreamAmqpLink |-> tUpstreamAmqpLink,
   tInternalOperations |-> tInternalOperations,
   tDetachedListeners |-> tDetachedListeners,
   tMessageListeners |-> tMessageListeners,
   tAttaches |-> tAttaches,
   tDetaches |-> tDetaches,
   tLinks |-> tLinks,
   tAttached |-> tAttached,
   tInflight |-> tInflight,
   tSent |-> <<>>,
   tEmitted |-> <<>>,
   tRequests |-> tRequests,
   tMessagesIn |-> tMessagesIn,
   tReceived |-> <<>>,
   visited |-> <<>>, failed |-> <<>>, exc |-> None, crashed |-> crashed]

WithinBounds(w) ==
  LET max == IF uses = "CbsAgent" THEN MaxCbsCreate ELSE MaxCreate
  IN  /\ w.sCreated <= max
      /\ w.rCreated <= max
      /\ Len(w.tLinks) <= MaxTwinLinks

\* The step leaves the program in world w
Commit(w) ==
  /\ WithinBounds(w)
  /\ sState' = w.sState
  /\ sInExit' = w.sInExit
  /\ sInputQueue' = w.sInputQueue
  /\ sLinkObject' = w.sLinkObject
  /\ sMessageQueue' = w.sMessageQueue
  /\ sAttachError' = w.sAttachError
  /\ sAttachCallback' = w.sAttachCallback
  /\ sCreates' = w.sCreates
  /\ sCreated' = w.sCreated
  /\ sClientListeners' = w.sClientListeners
  /\ sDetachListeners' = w.sDetachListeners
  /\ sInflight' = w.sInflight
  /\ linkSent' = w.linkSent
  /\ ticks' = w.ticks
  /\ log' = w.log
  /\ sendsIssued' = w.sendsIssued
  /\ attachIssued' = w.attachIssued
  /\ calls' = w.calls
  /\ rState' = w.rState
  /\ rInExit' = w.rInExit
  /\ rInputQueue' = w.rInputQueue
  /\ rLinkObject' = w.rLinkObject
  /\ rAttachCallback' = w.rAttachCallback
  /\ rCreates' = w.rCreates
  /\ rCreated' = w.rCreated
  /\ rClientListeners' = w.rClientListeners
  /\ rLinkListeners' = w.rLinkListeners
  /\ rMessageListeners' = w.rMessageListeners
  /\ rErrorListener' = w.rErrorListener
  /\ accepted' = w.accepted
  /\ listenIssued' = w.listenIssued
  /\ messagesIn' = w.messagesIn
  /\ uses' = uses
  /\ cState' = w.cState
  /\ cInputQueue' = w.cInputQueue
  /\ cAttachCallback' = w.cAttachCallback
  /\ cEpisodes' = w.cEpisodes
  /\ outstandingPutTokens' = w.outstandingPutTokens
  /\ timeoutTimer' = w.timeoutTimer
  /\ timers' = w.timers
  /\ advances' = w.advances
  /\ now' = w.now
  /\ putCalls' = w.putCalls
  /\ uuids' = w.uuids
  /\ received' = w.received
  /\ tState' = w.tState
  /\ tInputQueue' = w.tInputQueue
  /\ tListeners' = w.tListeners
  /\ tDownstreamAmqpLink' = w.tDownstreamAmqpLink
  /\ tUpstreamAmqpLink' = w.tUpstreamAmqpLink
  /\ tInternalOperations' = w.tInternalOperations
  /\ tDetachedListeners' = w.tDetachedListeners
  /\ tMessageListeners' = w.tMessageListeners
  /\ tAttaches' = w.tAttaches
  /\ tDetaches' = w.tDetaches
  /\ tLinks' = w.tLinks
  /\ tAttached' = w.tAttached
  /\ tInflight' = w.tInflight
  /\ tSent' = w.tSent
  /\ tEmitted' = w.tEmitted
  /\ tRequests' = w.tRequests
  /\ tMessagesIn' = w.tMessagesIn
  /\ tReceived' = w.tReceived
  /\ op' = w.op
  /\ visited' = w.visited
  /\ failed' = w.failed
  /\ raised' = w.exc
  /\ crashed' = w.crashed

\* The world at the start of a step named o
Begin(o) == [World EXCEPT !.op = o]

\* Statement sequencing: F runs unless an exception is in flight
Then(w, F(_)) == IF w.exc # None THEN w ELSE F(w)

Throw(w, e) == [w EXCEPT !.exc = e]


(***************************************************************************)
(* The handlers call each other in cycles (a handler calls a callback that *)
(* calls a handler).  Every such call is written DoX(...) and goes through *)
(* the one recursive operator Do, defined after the handlers, which runs X.*)
(***************************************************************************)
RECURSIVE Do(_)
DoInvoke(w, cb, err) == Do([f |-> "Invoke", a1 |-> w, a2 |-> cb, a3 |-> err])
DoSHandle(w, input, arg) == Do([f |-> "SHandle", a1 |-> w, a2 |-> input, a3 |-> arg])
DoSTransition(w, newState) == Do([f |-> "STransition", a1 |-> w, a2 |-> newState])
DoSReplay(w, items) == Do([f |-> "SReplay", a1 |-> w, a2 |-> items])
DoSFailQueue(w, err) == Do([f |-> "SFailQueue", a1 |-> w, a2 |-> err])
DoSDrainQueue(w) == Do([f |-> "SDrainQueue", a1 |-> w])
DoRHandle(w, input, arg) == Do([f |-> "RHandle", a1 |-> w, a2 |-> input, a3 |-> arg])
DoRTransition(w, newState) == Do([f |-> "RTransition", a1 |-> w, a2 |-> newState])
DoRReplay(w, items) == Do([f |-> "RReplay", a1 |-> w, a2 |-> items])
DoRAttachDone(w, err) == Do([f |-> "RAttachDone", a1 |-> w, a2 |-> err])
DoREmitError(w, err) == Do([f |-> "REmitError", a1 |-> w, a2 |-> err])
DoCTransition(w, newState) == Do([f |-> "CTransition", a1 |-> w, a2 |-> newState])
DoCHandle(w, input, arg) == Do([f |-> "CHandle", a1 |-> w, a2 |-> input, a3 |-> arg])
DoCReplay(w, items) == Do([f |-> "CReplay", a1 |-> w, a2 |-> items])
DoCSenderAttachDone(w, e, err) ==
  Do([f |-> "CSenderAttachDone", a1 |-> w, a2 |-> e, a3 |-> err])
DoCReceiverAttachDone(w, e, err) ==
  Do([f |-> "CReceiverAttachDone", a1 |-> w, a2 |-> e, a3 |-> err])
DoCSendDone(w, messageId, err) ==
  Do([f |-> "CSendDone", a1 |-> w, a2 |-> messageId, a3 |-> err])
DoCMessageHandler(w, msg) == Do([f |-> "CMessageHandler", a1 |-> w, a2 |-> msg])
DoTHandle(w, input, arg) == Do([f |-> "THandle", a1 |-> w, a2 |-> input, a3 |-> arg])
DoTTransition(w, newState) == Do([f |-> "TTransition", a1 |-> w, a2 |-> newState])
DoTReplay(w, items) == Do([f |-> "TReplay", a1 |-> w, a2 |-> items])
DoTHandleError(w, err) == Do([f |-> "THandleError", a1 |-> w, a2 |-> err])

(***************************************************************************)
(* Calling a callback value.  Calling undefined is a TypeError.  A user    *)
(* callback is recorded in log and does nothing else.                      *)
(***************************************************************************)
Invoke(w, cb, err) ==
  CASE cb.k = "none" -> Throw(w, TypeError)
    [] cb.k = "rAttachDone" -> DoRAttachDone(w, err)
    [] cb.k = "rNewListener" -> IF err # None THEN DoREmitError(w, err) ELSE w
    [] cb.k = "cSAttach" -> DoCSenderAttachDone(w, cb.id, err)
    [] cb.k = "cRAttach" -> DoCReceiverAttachDone(w, cb.id, err)
    [] cb.k = "cSend" -> DoCSendDone(w, cb.id, err)
    [] cb.k = "cMessage" -> DoCMessageHandler(w, err)
    [] cb.k = "tHandleError" -> DoTHandleError(w, err)
    [] cb.k = "uMessage" -> [w EXCEPT !.log = Append(@, [cb |-> cb, err |-> None, msg |-> err])]
    [] OTHER -> [w EXCEPT !.log = Append(@, [cb |-> cb, err |-> err, msg |-> 0])]

(***************************************************************************)
(* SenderLink                                                              *)
(***************************************************************************)
NoArg == [msg |-> 0, cb |-> NoCb]

\* A faulty pushToQueue, one that also starts an attach of its own
pushToQueueAttaching(w, arg) ==
  [w EXCEPT !.sMessageQueue = Append(@, [msg |-> arg.msg, cb |-> arg.cb]),
            !.sClientListeners = @ + 1,
            !.sCreates = Append(@, None),
            !.sCreated = @ + 1]

pushToQueue(w, arg) ==
  [w EXCEPT !.sMessageQueue = Append(@, [msg |-> arg.msg, cb |-> arg.cb])]

\* machina deferUntilTransition of the input being handled
SDefer(w, input, arg, until) ==
  [w EXCEPT !.sInputQueue = Append(@, [input |-> input, arg |-> arg, until |-> until])]

\* _attachLink: listen for client:errorReceived and call createSender
SAttachLink(w) ==
  [w EXCEPT !.sClientListeners = @ + 1,
            !.sCreates = Append(@, None),
            !.sCreated = @ + 1]

\* _detachLink
SDetachLink(w) ==
  IF w.sLinkObject = 0
    THEN Throw(w, TypeError)
    ELSE [w EXCEPT !.sLinkObject = 0]

\* detached._onEnter: fail every queued send with _attachError or 'Link Detached'
SFailQueue(w, err) ==
  IF w.sMessageQueue = <<>> \/ w.exc # None
    THEN w
    ELSE LET toSend == Head(w.sMessageQueue)
             w1 == [w EXCEPT !.sMessageQueue = Tail(@)]
         IN  DoSFailQueue(DoInvoke(w1, toSend.cb, err), err)

SDetachedOnEnter(w) ==
  IF Len(w.sMessageQueue) > 0
    THEN DoSFailQueue(w, IF w.sAttachError # None THEN w.sAttachError ELSE LinkDetached)
    ELSE w

\* attached._onEnter: hand every queued send to the 'send' handler
SDrainQueue(w) ==
  IF w.sMessageQueue = <<>> \/ w.exc # None
    THEN w
    ELSE LET toSend == Head(w.sMessageQueue)
             w1 == [w EXCEPT !.sMessageQueue = Tail(@)]
         IN  DoSDrainQueue(DoSHandle(w1, "send", toSend))

\* attached._onExit
SAttachedOnExit(w) ==
  IF w.sLinkObject = 0
    THEN Throw(w, TypeError)
    ELSE [w EXCEPT !.sDetachListeners = @ \ {w.sLinkObject}]

\* attached.send: linkObject.send(message), the callback waits for the promise
SAttachedSend(w, arg) ==
  IF w.sLinkObject = 0
    THEN Throw(w, TypeError)
    ELSE [w EXCEPT !.linkSent = Append(@, arg.msg),
                   !.sInflight = @ \cup {[msg |-> arg.msg, cb |-> arg.cb]}]

SOnEnter(w, state) ==
  CASE state = "detached" -> SDetachedOnEnter(w)
    [] state = "attaching" -> SAttachLink(w)
    [] state = "attached" -> DoSDrainQueue(w)
    [] OTHER -> w

\* machina processQueue: replay the inputs deferred until the current state
SReplay(w, items) ==
  IF items = <<>> \/ w.exc # None
    THEN w
    ELSE DoSReplay(DoSHandle(w, Head(items).input, Head(items).arg), Tail(items))

SProcessQueue(w) ==
  LET here(d) == d.until = w.sState
      away(d) == d.until # w.sState
  IN  DoSReplay([w EXCEPT !.sInputQueue = SelectSeq(@, away)],
              SelectSeq(w.sInputQueue, here))

\* machina transition.  The replay runs when no nested transition left the
\* new state (targetReplayState is still the new state).
STransition(w, newState) ==
  IF w.sInExit \/ newState = w.sState
    THEN w
    ELSE LET w1 == IF w.sState = "attached"
                     THEN LET x == SAttachedOnExit([w EXCEPT !.sInExit = TRUE])
                          IN  IF x.exc # None THEN x ELSE [x EXCEPT !.sInExit = FALSE]
                     ELSE w
             enter(x) == SOnEnter([x EXCEPT !.sState = newState,
                                            !.visited = Append(@, newState)], newState)
             replay(x) == IF x.sState = newState THEN SProcessQueue(x) ELSE x
         IN  Then(Then(w1, enter), replay)

SDetachSteps(w) ==
  LET detaching(x) == DoSTransition(x, "detaching")
      detached(x) == DoSTransition(x, "detached")
  IN  Then(Then(detaching(w), SDetachLink), detached)

\* machina handle on SenderLink._fsm
SHandle(w, input, arg) ==
  IF w.sInExit THEN w
  ELSE CASE w.sState = "detached" ->
              CASE input = "attach" ->
                     DoSTransition([w EXCEPT !.sAttachCallback = arg.cb], "attaching")
                [] input = "detach" -> w
                [] input = "send" ->
                     LET attach(x) == DoSHandle(x, "attach", NoArg)
                     IN  Then(pushToQueue(w, arg), attach)
                [] OTHER -> w
         [] w.sState = "attaching" ->
              CASE input = "detach" -> SDetachSteps(w)
                [] input = "send" -> pushToQueue(w, arg)
                [] OTHER -> w
         [] w.sState = "attached" ->
              CASE input = "attach" -> DoInvoke(w, arg.cb, None)
                [] input = "detach" -> SDetachSteps(w)
                [] input = "send" -> SAttachedSend(w, arg)
                [] OTHER -> w
         [] w.sState = "detaching" -> SDefer(w, input, arg, "detached")

\* the callback attaching._onEnter gives to _attachLink
SAttachDone(w, err) ==
  LET w1 == [w EXCEPT !.sAttachError = err,
                      !.failed = IF err # None
                                   THEN Append(@, [err |-> err, queue |-> w.sMessageQueue])
                                   ELSE @]
      w2 == DoSTransition(w1, IF err # None THEN "detached" ELSE "attached")
      cb(x) == IF x.sAttachCallback.k # "none"
                 THEN DoInvoke([x EXCEPT !.sAttachCallback = NoCb], x.sAttachCallback, err)
                 ELSE x
  IN  Then(w2, cb)

\* A faulty _detachHandler, one that keeps the link object
SDetachHandlerKeepingLink(w) ==
  LET detached(x) == DoSTransition(x, "detached")
  IN  Then(DoSTransition(w, "detaching"), detached)

\* _detachHandler: the link object emitted 'detached'
SDetachHandler(w) ==
  LET null(x) == [x EXCEPT !.sLinkObject = 0]
      detached(x) == DoSTransition(x, "detached")
  IN  Then(Then(DoSTransition(w, "detaching"), null), detached)

RemoveAt(s, i) == SubSeq(s, 1, i - 1) \o SubSeq(s, i + 1, Len(s))

\* createSender(...).then(...): the promise of the i-th pending call resolved.
\* An exception thrown by callback goes to the .catch, which calls callback
\* again with it; an exception thrown there is an unhandled rejection.
SCreateThen(w, i) ==
  LET connectionError == w.sCreates[i]
      link == w.sCreated - Len(w.sCreates) + 1
      w1 == [w EXCEPT !.sCreates = RemoveAt(@, i)]
      w2 == IF connectionError = None
              THEN [w1 EXCEPT !.sLinkObject = link,
                              !.sDetachListeners = @ \cup {link}]
              ELSE w1
      w3 == [w2 EXCEPT !.sClientListeners = @ - 1]
      w4 == SAttachDone(w3, connectionError)
  IN  IF w4.exc # None
        THEN [SAttachDone([w4 EXCEPT !.exc = None], w4.exc) EXCEPT !.exc = None]
        ELSE w4

\* createSender(...).catch(...): the promise of the i-th pending call rejected
SCreateCatch(w, i, err) ==
  [SAttachDone([w EXCEPT !.sCreates = RemoveAt(@, i)], err) EXCEPT !.exc = None]

\* client:errorReceived: every clientErrorHandler still listening records it
ClientErrorHandlers(w, err) ==
  [w EXCEPT !.sCreates = [i \in 1..Len(@) |-> err],
            !.rCreates = [i \in 1..Len(@) |-> err]]

\* linkObject.send(message) settled: _safeCallback schedules the callback
SSendSettled(w, x, err) ==
  LET w1 == [w EXCEPT !.sInflight = @ \ {x}]
  IN  IF x.cb.k # "none"
        THEN [w1 EXCEPT !.ticks = Append(@, [cb |-> x.cb, err |-> err])]
        ELSE w1

\* the step raised an exception into the event loop
Uncaught(w) == IF w.exc # None THEN [w EXCEPT !.crashed = TRUE] ELSE w

\* the event loop runs the first process.nextTick callback
RunTick(w) ==
  LET t == Head(w.ticks)
  IN  Uncaught(DoInvoke([w EXCEPT !.ticks = Tail(@)], t.cb, t.err))

(***************************************************************************)
(* AmqpReceiverLinkFsm                                                     *)
(***************************************************************************)
\* EventEmitter.emit('error', err): throws err when nobody listens
REmitError(w, err) ==
  IF w.rErrorListener THEN w ELSE Throw(w, err)

RDefer(w, input, arg, until) ==
  [w EXCEPT !.rInputQueue = Append(@, [input |-> input, arg |-> arg, until |-> until])]

\* _attachLink: listen for client:errorReceived and call createReceiver
RAttachLink(w) ==
  [w EXCEPT !.rClientListeners = @ + 1,
            !.rCreates = Append(@, None),
            !.rCreated = @ + 1]

\* _detachLink
RDetachLink(w) ==
  IF w.rLinkObject = 0
    THEN Throw(w, TypeError)
    ELSE [w EXCEPT !.rLinkObject = 0]

\* attached._onEnter
RAttachedOnEnter(w) ==
  IF w.rLinkObject = 0
    THEN Throw(w, TypeError)
    ELSE [w EXCEPT !.rLinkListeners = @ \cup {w.rLinkObject}]

\* attached._onExit
RAttachedOnExit(w) ==
  IF w.rLinkObject = 0
    THEN Throw(w, TypeError)
    ELSE [w EXCEPT !.rLinkListeners = @ \ {w.rLinkObject}]

ROnEnter(w, state) ==
  CASE state = "attaching" -> RAttachLink(w)
    [] state = "attached" -> RAttachedOnEnter(w)
    [] OTHER -> w

RReplay(w, items) ==
  IF items = <<>> \/ w.exc # None
    THEN w
    ELSE DoRReplay(DoRHandle(w, Head(items).input, Head(items).arg), Tail(items))

RProcessQueue(w) ==
  LET here(d) == d.until = w.rState
      away(d) == d.until # w.rState
  IN  DoRReplay([w EXCEPT !.rInputQueue = SelectSeq(@, away)],
              SelectSeq(w.rInputQueue, here))

\* machina transition on AmqpReceiverLinkFsm._fsm
RTransition(w, newState) ==
  IF w.rInExit \/ newState = w.rState
    THEN w
    ELSE LET w1 == IF w.rState = "attached"
                     THEN LET x == RAttachedOnExit([w EXCEPT !.rInExit = TRUE])
                          IN  IF x.exc # None THEN x ELSE [x EXCEPT !.rInExit = FALSE]
                     ELSE w
             enter(x) == ROnEnter([x EXCEPT !.rState = newState], newState)
             replay(x) == IF x.rState = newState THEN RProcessQueue(x) ELSE x
         IN  Then(Then(w1, enter), replay)

RDetachSteps(w) ==
  LET detaching(x) == DoRTransition(x, "detaching")
      detached(x) == DoRTransition(x, "detached")
  IN  Then(Then(detaching(w), RDetachLink), detached)

\* attached.accept: linkObject.accept(message), then the optional callback
RAttachedAccept(w, arg) ==
  IF w.rLinkObject = 0
    THEN Throw(w, TypeError)
    ELSE LET w1 == [w EXCEPT !.accepted = Append(@, arg.msg)]
         IN  IF arg.cb.k # "none" THEN DoInvoke(w1, arg.cb, None) ELSE w1

\* machina handle on AmqpReceiverLinkFsm._fsm
RHandle(w, input, arg) ==
  IF w.rInExit THEN w
  ELSE CASE w.rState = "detached" ->
              CASE input = "attach" ->
                     DoRTransition([w EXCEPT !.rAttachCallback = arg.cb], "attaching")
                [] input = "detach" -> DoInvoke(w, arg.cb, None)
                [] OTHER -> RDefer(w, input, arg, "attached")
         [] w.rState = "attaching" ->
              CASE input = "detach" -> RDetachSteps(w)
                [] OTHER -> RDefer(w, input, arg, "attached")
         [] w.rState = "attached" ->
              CASE input = "attach" -> DoInvoke(w, arg.cb, None)
                [] input = "detach" -> RDetachSteps(w)
                [] input = "accept" -> RAttachedAccept(w, arg)
                [] OTHER -> w
         [] w.rState = "detaching" -> RDefer(w, input, arg, "detached")

\* the callback attaching._onEnter gives to _attachLink
RAttachDone(w, err) ==
  LET w1 == DoRTransition(w, IF err # None THEN "detached" ELSE "attached")
      cb(x) == IF x.rAttachCallback.k # "none"
                 THEN DoInvoke([x EXCEPT !.rAttachCallback = NoCb], x.rAttachCallback, err)
                 ELSE x
  IN  Then(w1, cb)

\* _detachHandler: the link object emitted 'detached', with or without an error
RDetachHandler(w, err) ==
  LET w1 == [w EXCEPT !.rLinkObject = 0]
      w2 == IF err # None THEN DoREmitError(w1, err) ELSE w1
      detached(x) == DoRTransition(x, "detached")
  IN  Then(w2, detached)

\* createReceiver(...).then(...): _safeCallback schedules done
RCreateThen(w, i) ==
  LET connectionError == w.rCreates[i]
      link == w.rCreated - Len(w.rCreates) + 1
      w1 == [w EXCEPT !.rCreates = RemoveAt(@, i), !.rClientListeners = @ - 1]
      w2 == IF connectionError = None
              THEN [w1 EXCEPT !.rLinkObject = link]
              ELSE w1
  IN  [w2 EXCEPT !.ticks = Append(@, [cb |-> ReceiverAttachDone, err |-> connectionError])]

\* createReceiver(...).catch(...): _safeCallback schedules done with the error
RCreateCatch(w, i, err) ==
  [w EXCEPT !.rCreates = RemoveAt(@, i),
            !.ticks = Append(@, [cb |-> ReceiverAttachDone, err |-> err])]

\* the 'newListener' hook, then EventEmitter adds the listener
RNewListener(w, listener) ==
  LET add(x) == [x EXCEPT !.rMessageListeners = Append(@, listener)]
  IN  Then(DoRHandle(w, "attach", [msg |-> 0, cb |-> ReceiverListenerCb]), add)

\* EventEmitter removes the listener, then the 'removeListener' hook
RRemoveListener(w, i) ==
  LET w1 == [w EXCEPT !.rMessageListeners = RemoveAt(@, i)]
  IN  IF Len(w1.rMessageListeners) = 0 THEN DoRHandle(w1, "detach", NoArg) ELSE w1

RECURSIVE REmitMessage(_, _, _)
\* _messageHandler: emit 'message' to every listener, in registration order
REmitMessage(w, listeners, m) ==
  IF listeners = <<>> \/ w.exc # None
    THEN w
    ELSE REmitMessage(DoInvoke(w, Head(listeners), m), Tail(listeners), m)

(***************************************************************************)
(* ClaimsBasedSecurityAgent                                                *)
(***************************************************************************)
\* setTimeout(this._removeExpiredPutTokens.bind(this), putTokenTimeOutExaminationInterval)
\* The handle is a timer identity not in use by an armed timer
CSetTimeout(w) ==
  LET used == {x.id : x \in w.timers}
      t == CHOOSE i \in 1..(Cardinality(used) + 1) : i \notin used
  IN  [w EXCEPT !.timeoutTimer = t,
                !.timers = @ \cup {[id |-> t,
                                     due |-> w.now + putTokenTimeOutExaminationInterval
                                                       \div MillisecondsPerSecond]}]

\* clearTimeout(this._putToken.timeoutTimer)
CClearTimeout(w) ==
  [w EXCEPT !.timers = {t \in @ : t.id # w.timeoutTimer}]

\* A faulty lookup, one that takes the oldest outstanding put token whatever
\* the correlation id of the message
FirstIndexInArrivalOrder(list, c) == IF list = <<>> THEN 0 ELSE 1

\* index of the first outstanding put token with this correlation id, 0 if none
FirstIndex(list, c) ==
  LET hits == {i \in 1..Len(list) : list[i].correlationId = c}
  IN  IF hits = {} THEN 0 ELSE CHOOSE i \in hits : \A j \in hits : i <= j

\* index of the last outstanding put token with this correlation id, 0 if none
LastIndex(list, c) ==
  LET hits == {i \in 1..Len(list) : list[i].correlationId = c}
  IN  IF hits = {} THEN 0 ELSE CHOOSE i \in hits : \A j \in hits : i >= j

\* A faulty 'message' listener, one that accepts a message only when a put
\* token was waiting for it
CMessageHandlerAcceptingMatches(w, msg) ==
  LET list == w.outstandingPutTokens
      i == FirstIndex(list, msg.correlationId)
      accept(x) == DoRHandle(x, "accept", [msg |-> msg.n, cb |-> NoCb])
  IN  IF i = 0
        THEN w
        ELSE LET completedPutToken == list[i]
                 x == [w EXCEPT !.outstandingPutTokens = RemoveAt(@, i)]
             IN  Then(IF completedPutToken.cb.k # "none"
                        THEN DoInvoke(x, completedPutToken.cb,
                                      IF msg.status # 200 THEN UnauthorizedError ELSE None)
                        ELSE x, accept)

\* A faulty 'message' listener, one that leaves the completed put token in
\* outstandingPutTokens
CMessageHandlerKeepingEntry(w, msg) ==
  LET list == w.outstandingPutTokens
      i == FirstIndex(list, msg.correlationId)
      w1 == IF i = 0 \/ list[i].cb.k = "none"
              THEN w
              ELSE DoInvoke(w, list[i].cb, IF msg.status # 200 THEN UnauthorizedError ELSE None)
      accept(x) == DoRHandle(x, "accept", [msg |-> msg.n, cb |-> NoCb])
  IN  Then(w1, accept)

\* the 'message' listener attaching._onEnter registers on the receiver link
CMessageHandler(w, msg) ==
  LET list == w.outstandingPutTokens
      i == FirstIndex(list, msg.correlationId)
      w1 == IF i = 0
              THEN w
              ELSE LET completedPutToken == list[i]
                       x == [w EXCEPT !.outstandingPutTokens = RemoveAt(@, i)]
                   IN  IF completedPutToken.cb.k # "none"
                         THEN DoInvoke(x, completedPutToken.cb,
                                     IF msg.status # 200 THEN UnauthorizedError ELSE None)
                         ELSE x
      accept(x) == DoRHandle(x, "accept", [msg |-> msg.n, cb |-> NoCb])
  IN  Then(w1, accept)

\* the callback attached.putToken gives to SenderLink.send
CSendDone(w, messageId, err) ==
  LET list == w.outstandingPutTokens
      i == LastIndex(list, messageId)
  IN  IF i = 0
        THEN w
        ELSE LET outStandingPutTokenInError == list[i]
                 w1 == [w EXCEPT !.outstandingPutTokens = RemoveAt(@, i)]
                 w2 == IF Len(w1.outstandingPutTokens) = 0 THEN CClearTimeout(w1) ELSE w1
             IN  DoInvoke(w2, outStandingPutTokenInError.cb, err)

\* attached.putToken.  uuid.v4() yields an identity no other message has: the
\* model takes the number of the putToken call, which arrives in arg.msg
CAttachedPutToken(w, arg) ==
  LET messageId == arg.msg
      outstandingPutToken == [cb |-> arg.cb,
                              expirationTime |-> w.now + numberOfSecondsToTimeout,
                              correlationId |-> messageId]
      w1 == [w EXCEPT !.uuids = @ + 1,
                      !.outstandingPutTokens = Append(@, outstandingPutToken)]
      w2 == IF Len(w1.outstandingPutTokens) = 1 THEN CSetTimeout(w1) ELSE w1
  IN  DoSHandle(w2, "send", [msg |-> messageId, cb |-> CbsSendCb(messageId)])

RECURSIVE CExpire(_, _)
\* expiredPutTokens.forEach: call each expired put token's callback
CExpire(w, expiredPutTokens) ==
  IF expiredPutTokens = <<>> \/ w.exc # None
    THEN w
    ELSE CExpire(DoInvoke(w, Head(expiredPutTokens).cb, TimeoutError), Tail(expiredPutTokens))

\* number of put tokens at the head of the list that have expired
RECURSIVE ExpiredPrefix(_, _)
ExpiredPrefix(list, currentTime) ==
  IF list # <<>> /\ Head(list).expirationTime < currentTime
    THEN 1 + ExpiredPrefix(Tail(list), currentTime)
    ELSE 0

\* A faulty _removeExpiredPutTokens, one that arms the timer again even when
\* no put token is left
CRemoveExpiredPutTokensRearming(w) ==
  LET list == w.outstandingPutTokens
      n == ExpiredPrefix(list, w.now)
      w1 == [w EXCEPT !.outstandingPutTokens = SubSeq(list, n + 1, Len(list))]
  IN  Then(CExpire(w1, SubSeq(list, 1, n)), CSetTimeout)

\* _removeExpiredPutTokens
CRemoveExpiredPutTokens(w) ==
  LET list == w.outstandingPutTokens
      n == ExpiredPrefix(list, w.now)
      w1 == [w EXCEPT !.outstandingPutTokens = SubSeq(list, n + 1, Len(list))]
      w2 == CExpire(w1, SubSeq(list, 1, n))
      rearm(x) == IF Len(x.outstandingPutTokens) > 0 THEN CSetTimeout(x) ELSE x
  IN  Then(w2, rearm)

\* History: the first error a link's attach reported in episode e
CFailure(w, e, err) ==
  IF w.cEpisodes[e].error = None THEN [w EXCEPT !.cEpisodes[e].error = err] ELSE w

\* A faulty callback for SenderLink.attach, one that does not wait for the
\* receiver link
CSenderAttachDoneAlone(w, e, err) ==
  IF err # None
    THEN LET cb(x) == DoInvoke([x EXCEPT !.cAttachCallback = NoCb], x.cAttachCallback, err)
         IN  Then(DoCTransition(CFailure(w, e, err), "detaching"), cb)
    ELSE DoCTransition([w EXCEPT !.cEpisodes[e].senderAttached = TRUE], "attached")

\* the callback attaching._onEnter gives to SenderLink.attach
CSenderAttachDone(w, e, err) ==
  IF err # None
    THEN LET cb(x) == DoInvoke([x EXCEPT !.cAttachCallback = NoCb], x.cAttachCallback, err)
         IN  Then(DoCTransition(CFailure(w, e, err), "detaching"), cb)
    ELSE LET w1 == [w EXCEPT !.cEpisodes[e].senderAttached = TRUE]
         IN  IF w1.cEpisodes[e].senderAttached /\ w1.cEpisodes[e].receiverAttached
               THEN DoCTransition(w1, "attached")
               ELSE w1

\* the callback attaching._onEnter gives to AmqpReceiverLinkFsm.attach
CReceiverAttachDone(w, e, err) ==
  IF err # None
    THEN LET cb(x) == DoInvoke(x, w.cAttachCallback, err)
         IN  Then(DoCTransition([CFailure(w, e, err) EXCEPT !.cAttachCallback = NoCb],
                              "detaching"), cb)
    ELSE LET w1 == [w EXCEPT !.cEpisodes[e].receiverAttached = TRUE]
             attached(x) ==
               IF x.cEpisodes[e].senderAttached /\ x.cEpisodes[e].receiverAttached
                 THEN DoCTransition(x, "attached")
                 ELSE x
         IN  Then(RNewListener(w1, CbsMessageCb), attached)

\* attaching._onEnter
CAttachingOnEnter(w) ==
  LET e == Len(w.cEpisodes) + 1
      w1 == [w EXCEPT !.cEpisodes = Append(@, [senderAttached |-> FALSE,
                                                receiverAttached |-> FALSE,
                                                done |-> w.cAttachCallback,
                                                error |-> None])]
      receiver(x) == DoRHandle(x, "attach", [msg |-> 0, cb |-> CbsReceiverAttachCb(e)])
  IN  Then(DoSHandle(w1, "attach", [msg |-> 0, cb |-> CbsSenderAttachCb(e)]), receiver)

\* attached._onEnter
CAttachedOnEnter(w) ==
  IF w.cAttachCallback.k # "none"
    THEN DoInvoke([w EXCEPT !.cAttachCallback = NoCb], w.cAttachCallback, None)
    ELSE w

\* detaching._onEnter
CDetachingOnEnter(w) ==
  LET receiver(x) == DoRHandle(x, "detach", NoArg)
      detached(x) == DoCTransition(x, "detached")
  IN  Then(Then(DoSHandle(w, "detach", NoArg), receiver), detached)

COnEnter(w, state) ==
  CASE state = "attaching" -> CAttachingOnEnter(w)
    [] state = "attached" -> CAttachedOnEnter(w)
    [] state = "detaching" -> CDetachingOnEnter(w)
    [] OTHER -> w

CReplay(w, items) ==
  IF items = <<>> \/ w.exc # None
    THEN w
    ELSE DoCReplay(DoCHandle(w, Head(items).input, Head(items).arg), Tail(items))

CProcessQueue(w) ==
  LET here(d) == d.until = w.cState
      away(d) == d.until # w.cState
  IN  DoCReplay([w EXCEPT !.cInputQueue = SelectSeq(@, away)],
              SelectSeq(w.cInputQueue, here))

\* machina transition on ClaimsBasedSecurityAgent._fsm (no state has an _onExit)
CTransition(w, newState) ==
  IF newState = w.cState
    THEN w
    ELSE LET replay(x) == IF x.cState = newState THEN CProcessQueue(x) ELSE x
         IN  Then(COnEnter([w EXCEPT !.cState = newState], newState), replay)

\* machina handle on ClaimsBasedSecurityAgent._fsm
CHandle(w, input, arg) ==
  CASE w.cState = "detached" ->
         IF input = "attach"
           THEN DoCTransition([w EXCEPT !.cAttachCallback = arg.cb], "attaching")
           ELSE w
    [] w.cState = "attaching" -> w
    [] w.cState = "attached" ->
         CASE input = "attach" -> DoInvoke(w, arg.cb, None)
           [] input = "detach" -> DoCTransition(w, "detaching")
           [] input = "putToken" -> CAttachedPutToken(w, arg)
           [] OTHER -> w
    [] w.cState = "detaching" ->
         [w EXCEPT !.cInputQueue = Append(@, [input |-> input, arg |-> arg,
                                              until |-> "detached"])]

\* ClaimsBasedSecurityAgent.attach(callback)
CAttach(w, callback) == DoCHandle(w, "attach", [msg |-> 0, cb |-> callback])

\* ClaimsBasedSecurityAgent.detach(callback)
CDetach(w, callback) == DoCHandle(w, "attach", [msg |-> 0, cb |-> callback])

\* ClaimsBasedSecurityAgent.putToken(audience, token, putTokenCallback), both strings not empty
CPutToken(w, putTokenCallback) ==
  DoCHandle(w, "putToken", [msg |-> putTokenCallback.id, cb |-> putTokenCallback])

(***************************************************************************)
(* AmqpTwinReceiver (the twin client).  Its AMQP client, this._client, is  *)
(* not part of the sources: it answers attachReceiverLink,                 *)
(* attachSenderLink, detachSenderLink and detachReceiverLink later, each   *)
(* with success or with an error, and hands out a new link object with     *)
(* every successful attach.                                                *)
(***************************************************************************)
\* A JavaScript value passed to sendTwinRequest: its type, its text as a
\* sequence of tokens (a trailing '/' is a token of its own) and, for an
\* object, its members in Object.keys order
Val(t, v) == [t |-> t, v |-> v, props |-> <<>>]
Obj(props) == [t |-> "object", v |-> <<>>, props |-> props]

\* !x
Falsy(x) ==
  \/ x.t \in {"undefined", "null"}
  \/ x.t = "string" /\ x.v = <<>>
  \/ x.t = "number" /\ x.v = <<"0">>
  \/ x.t = "boolean" /\ x.v = <<"false">>

\* The arguments of a sendTwinRequest call
Request(method, resource, properties, body) ==
  [method |-> method, resource |-> resource, properties |-> properties, body |-> body]
NoRequest ==
  LET undefined == Val("undefined", <<>>)
  IN  Request(undefined, undefined, undefined, undefined)

\* An annotation or property that may be absent from a message
Absent == [present |-> FALSE, v |-> <<>>]
Present(v) == [present |-> TRUE, v |-> v]

\* uuid.v4().toString(): the n-th identity generated
Uuid(n) == <<"uuid", ToString(n)>>

notificationsResource == <<"/notifications/twin/properties/desired">>

\* The argument of an input of AmqpTwinReceiver._fsm
TArg(eventName, req, done) == [eventName |-> eventName, req |-> req, done |-> done]

\* localResource: the resource without its terminating slash
LocalResource(resource) ==
  IF Len(resource) > 0 /\ resource[Len(resource)] = "/"
    THEN SubSeq(resource, 1, Len(resource) - 1)
    ELSE resource

\* properties.forEach: the correlationId is the text of the last $rid member
CorrelationIdOf(props) ==
  LET rids == {i \in 1..Len(props) : props[i].key = "$rid"}
  IN  IF rids = {}
        THEN Absent
        ELSE Present(props[CHOOSE i \in rids : \A j \in rids : j <= i].val.v)

\* A faulty encoding, one that sets the version annotation for every method
TwinMessageAlwaysVersioned(req) ==
  LET localResource == LocalResource(req.resource.v)
      notRid(p) == p.key # "$rid"
  IN  [operation |-> req.method.v,
       resource |-> IF Len(localResource) > 0 THEN Present(localResource) ELSE Absent,
       version |-> Present(<<"null">>),
       correlationId |-> CorrelationIdOf(req.properties.props),
       properties |-> SelectSeq(req.properties.props, notRid),
       body |-> req.body.v]

\* the AmqpMessage _sendTwinRequest builds
TwinMessage(req) ==
  LET localResource == LocalResource(req.resource.v)
      notRid(p) == p.key # "$rid"
  IN  [operation |-> req.method.v,
       resource |-> IF Len(localResource) > 0 THEN Present(localResource) ELSE Absent,
       version |-> IF req.method.v = <<"PATCH">> THEN Present(<<"null">>) ELSE Absent,
       correlationId |-> CorrelationIdOf(req.properties.props),
       properties |-> SelectSeq(req.properties.props, notRid),
       body |-> req.body.v]

\* the exception _sendTwinRequest throws for these arguments, None if none
Validate(req) ==
  LET isString(x) == x.t = "string"
      isNumber(x) == x.t = "number"
      isBoolean(x) == x.t = "boolean"
      isObject(x) == x.t = "object"
  IN  IF Falsy(req.method) \/ Falsy(req.resource) \/ Falsy(req.properties) \/ Falsy(req.body)
        THEN ReferenceError
      ELSE IF ~isString(req.method) \/ ~isString(req.resource)
        THEN ArgumentError
      ELSE IF ~isObject(req.properties)
        THEN ArgumentError
      ELSE IF \E i \in 1..Len(req.properties.props) :
                LET x == req.properties.props[i].val
                IN  ~isString(x) /\ ~isNumber(x) /\ ~isBoolean(x)
        THEN ArgumentError
      ELSE None

\* _sendTwinRequest
TSendTwinRequest(w, req, done) ==
  IF Validate(req) # None THEN Throw(w, Validate(req))
  ELSE IF w.tUpstreamAmqpLink = 0 THEN Throw(w, TypeError)
  ELSE [w EXCEPT !.tSent = Append(@, [link |-> w.tUpstreamAmqpLink,
                                      message |-> TwinMessage(req)]),
                 !.tInflight = IF done.k # "none" THEN @ \cup {done} ELSE @]

\* EventEmitter.emit: emitting 'error' throws the error when nobody listens
TEmit(w, eventName, arg) ==
  LET w1 == [w EXCEPT !.tEmitted = Append(@, [eventName |-> eventName, arg |-> arg])]
  IN  IF eventName = errorEvent /\ w.tListeners[errorEvent] = 0
        THEN Throw(w1, arg[1])
        ELSE w1

\* _handleError
THandleError(w, err) == TEmit(w, errorEvent, <<err>>)

\* machina deferUntilTransition of the input being handled
TDefer(w, input, arg, until) ==
  [w EXCEPT !.tInputQueue = Append(@, [input |-> input, arg |-> arg, until |-> until])]

\* connecting._onEnter: a new channel correlation id, then attachReceiverLink
TConnectingOnEnter(w) ==
  [w EXCEPT !.uuids = @ + 1,
            !.tAttaches = Append(@, [kind |-> "receiver", channel |-> w.uuids + 1])]

\* connected._onEnter
TConnectedOnEnter(w) ==
  IF w.tDownstreamAmqpLink = 0
    THEN Throw(w, TypeError)
    ELSE [w EXCEPT !.tMessageListeners = Append(@, w.tDownstreamAmqpLink)]

\* removeListener: the listener added last to this link object is removed
RemoveLast(s, x) ==
  LET hits == {i \in 1..Len(s) : s[i] = x}
  IN  IF hits = {} THEN s ELSE RemoveAt(s, CHOOSE i \in hits : \A j \in hits : j <= i)

\* connected._onExit
TConnectedOnExit(w) ==
  IF w.tDownstreamAmqpLink = 0
    THEN Throw(w, TypeError)
    ELSE [w EXCEPT !.tMessageListeners = RemoveLast(@, w.tDownstreamAmqpLink)]

\* disconnecting._onEnter: detachSenderLink, then straight on to 'disconnected'
TDisconnectingOnEnter(w) ==
  DoTTransition([w EXCEPT !.tDetaches = Append(@, [kind |-> "sender", link |-> 0])],
                "disconnected")

TOnEnter(w, state) ==
  CASE state = "connecting" -> TConnectingOnEnter(w)
    [] state = "connected" -> TConnectedOnEnter(w)
    [] state = "disconnecting" -> TDisconnectingOnEnter(w)
    [] OTHER -> w

TReplay(w, items) ==
  IF items = <<>> \/ w.exc # None
    THEN w
    ELSE DoTReplay(DoTHandle(w, Head(items).input, Head(items).arg), Tail(items))

TProcessQueue(w) ==
  LET here(d) == d.until = w.tState
      away(d) == d.until # w.tState
  IN  DoTReplay([w EXCEPT !.tInputQueue = SelectSeq(@, away)],
                SelectSeq(w.tInputQueue, here))

\* machina transition on AmqpTwinReceiver._fsm
TTransition(w, newState) ==
  IF newState = w.tState
    THEN w
    ELSE LET w1 == IF w.tState = "connected" THEN TConnectedOnExit(w) ELSE w
             enter(x) == TOnEnter([x EXCEPT !.tState = newState,
                                            !.visited = Append(@, newState)], newState)
             replay(x) == IF x.tState = newState THEN TProcessQueue(x) ELSE x
         IN  Then(Then(w1, enter), replay)

\* connected.handleNewListener
TConnectedNewListener(w, eventName) ==
  CASE eventName = responseEvent -> TEmit(w, subscribedEvent, <<responseEvent>>)
    [] eventName = postEvent ->
         LET correlationId == Uuid(w.uuids + 1)
             w1 == [w EXCEPT !.uuids = @ + 1,
                             !.tInternalOperations =
                                @ \cup {[correlationId |-> correlationId, k |-> "subscribed"]}]
         IN  TSendTwinRequest(w1, Request(Val("string", <<"PUT">>),
                                          Val("string", notificationsResource),
                                          Obj(<<[key |-> "$rid",
                                                 val |-> Val("string", correlationId)]>>),
                                          Val("string", <<" ">>)), NoCb)
    [] OTHER -> w

\* A faulty connected.handleRemoveListener, one that sends the DELETE for
\* every 'post' listener removed
TConnectedRemoveListenerEachPost(w, eventName) ==
  LET correlationId == Uuid(w.uuids + 1)
      w1 == IF eventName = postEvent
              THEN TSendTwinRequest(
                     [w EXCEPT !.uuids = @ + 1,
                               !.tInternalOperations =
                                  @ \cup {[correlationId |-> correlationId, k |-> "debug"]}],
                     Request(Val("string", <<"DELETE">>),
                             Val("string", notificationsResource),
                             Obj(<<[key |-> "$rid", val |-> Val("string", correlationId)]>>),
                             Val("string", <<" ">>)), NoCb)
              ELSE w
      leave(x) == IF x.tListeners[postEvent] + x.tListeners[responseEvent] = 0
                    THEN DoTTransition(x, "disconnecting")
                    ELSE x
  IN  Then(w1, leave)

\* connected.handleRemoveListener
TConnectedRemoveListener(w, eventName) ==
  LET correlationId == Uuid(w.uuids + 1)
      w1 == IF eventName = postEvent /\ w.tListeners[postEvent] = 0
              THEN TSendTwinRequest(
                     [w EXCEPT !.uuids = @ + 1,
                               !.tInternalOperations =
                                  @ \cup {[correlationId |-> correlationId, k |-> "debug"]}],
                     Request(Val("string", <<"DELETE">>),
                             Val("string", notificationsResource),
                             Obj(<<[key |-> "$rid", val |-> Val("string", correlationId)]>>),
                             Val("string", <<" ">>)), NoCb)
              ELSE w
      leave(x) == IF x.tListeners[postEvent] + x.tListeners[responseEvent] = 0
                    THEN DoTTransition(x, "disconnecting")
                    ELSE x
  IN  Then(w1, leave)

\* A faulty connected.handleLinkDetach, one that reports no error
TConnectedLinkDetachUnreported(w) == DoTTransition(w, "disconnecting")

\* connected.handleLinkDetach
TConnectedLinkDetach(w) ==
  DoTTransition([w EXCEPT !.ticks = Append(@, [cb |-> TwinHandleErrorCb,
                                               err |-> InternalError])],
                "disconnecting")

\* machina handle on AmqpTwinReceiver._fsm; an input the state has no handler
\* for is dropped
THandle(w, input, arg) ==
  CASE w.tState = "disconnected" ->
         CASE input = "handleNewListener" ->
                IF arg.eventName = responseEvent \/ arg.eventName = postEvent
                  THEN DoTTransition(TDefer(w, input, arg, "connected"), "connecting")
                  ELSE w
           [] input = "sendTwinRequest" ->
                DoTTransition(TDefer(w, input, arg, "connected"), "connecting")
           [] OTHER -> w
    [] w.tState = "connecting" ->
         IF input \in {"handleNewListener", "handleRemoveListener", "sendTwinRequest"}
           THEN TDefer(w, input, arg, "connected")
           ELSE w
    [] w.tState = "connected" ->
         CASE input = "handleNewListener" -> TConnectedNewListener(w, arg.eventName)
           [] input = "handleRemoveListener" -> TConnectedRemoveListener(w, arg.eventName)
           [] input = "sendTwinRequest" -> TSendTwinRequest(w, arg.req, arg.done)
           [] input = "handleLinkDetach" -> TConnectedLinkDetach(w)
           [] OTHER -> w
    [] w.tState = "disconnecting" ->
         IF input \in {"handleNewListener", "handleRemoveListener", "sendTwinRequest"}
           THEN TDefer(w, input, arg, "disconnected")
           ELSE w

\* A faulty callback for attachReceiverLink, one that leaves through
\* 'disconnecting' when the attach failed
TReceiverAttachDoneDetaching(w, receiverLinkError, receiverTransportObject) ==
  IF receiverLinkError # None
    THEN DoTTransition([w EXCEPT !.ticks = Append(@, [cb |-> TwinHandleErrorCb,
                                                      err |-> receiverLinkError])],
                       "disconnecting")
    ELSE [w EXCEPT !.tDownstreamAmqpLink = receiverTransportObject,
                   !.tDetachedListeners = @ \cup {receiverTransportObject},
                   !.tAttaches = Append(@, [kind |-> "sender", channel |-> w.uuids])]

\* the callback connecting._onEnter gives to attachReceiverLink
TReceiverAttachDone(w, receiverLinkError, receiverTransportObject) ==
  IF receiverLinkError # None
    THEN DoTTransition([w EXCEPT !.ticks = Append(@, [cb |-> TwinHandleErrorCb,
                                                      err |-> receiverLinkError])],
                       "disconnected")
    ELSE [w EXCEPT !.tDownstreamAmqpLink = receiverTransportObject,
                   !.tDetachedListeners = @ \cup {receiverTransportObject},
                   !.tAttaches = Append(@, [kind |-> "sender", channel |-> w.uuids])]

\* the callback given to attachSenderLink
TSenderAttachDone(w, senderLinkError, senderTransportObject) ==
  IF senderLinkError # None
    THEN DoTTransition([w EXCEPT !.ticks = Append(@, [cb |-> TwinHandleErrorCb,
                                                      err |-> senderLinkError])],
                       "disconnecting")
    ELSE DoTTransition([w EXCEPT !.tUpstreamAmqpLink = senderTransportObject,
                                 !.tDetachedListeners = @ \cup {senderTransportObject}],
                       "connected")

\* the client answers the i-th pending attach call, with an error or with a
\* new link object
TAttachAnswered(w, i, err) ==
  LET kind == w.tAttaches[i].kind
      w1 == [w EXCEPT !.tAttaches = RemoveAt(@, i)]
      w2 == IF err = None
              THEN [w1 EXCEPT !.tLinks = Append(@, kind),
                              !.tAttached = @ \cup {Len(w.tLinks) + 1}]
              ELSE w1
      link == IF err = None THEN Len(w2.tLinks) ELSE 0
  IN  IF kind = "receiver"
        THEN TReceiverAttachDone(w2, err, link)
        ELSE TSenderAttachDone(w2, err, link)

\* the callback disconnecting._onEnter gives to detachSenderLink
TSenderDetachDone(w, err) ==
  LET w1 == IF err # None
              THEN [w EXCEPT !.ticks = Append(@, [cb |-> TwinHandleErrorCb, err |-> err])]
              ELSE w
  IN  [w1 EXCEPT !.tDetaches = Append(@, [kind |-> "receiver",
                                          link |-> w.tDownstreamAmqpLink])]

\* the callback given to detachReceiverLink
TReceiverDetachDone(w, err) ==
  IF err # None
    THEN [w EXCEPT !.ticks = Append(@, [cb |-> TwinHandleErrorCb, err |-> err])]
    ELSE w

\* the client answers the i-th pending detach call: without an error the
\* sender links of the endpoint, or the receiver link passed, are detached
TDetachAnswered(w, i, err) ==
  LET d == w.tDetaches[i]
      gone == IF err # None THEN {}
              ELSE IF d.kind = "sender"
                THEN {l \in w.tAttached : w.tLinks[l] = "sender"}
                ELSE {d.link}
      w1 == [w EXCEPT !.tDetaches = RemoveAt(@, i), !.tAttached = @ \ gone]
  IN  IF d.kind = "sender" THEN TSenderDetachDone(w1, err) ELSE TReceiverDetachDone(w1, err)

\* _onAmqpDetached: link object l emitted 'detached'
TOnAmqpDetached(w, l) ==
  LET w1 == [w EXCEPT !.tAttached = @ \ {l}]
  IN  IF l \in w.tDetachedListeners THEN DoTHandle(w1, "handleLinkDetach", TArg("", NoRequest, NoCb))
                                    ELSE w1

\* A faulty response object, one without the correlationId of the message
ResponseWithoutRid(message) == <<"200">>

\* The response object _onResponseMessage emits: its status, always 200,
\* followed by its $rid, the correlationId of the message
Response(message) == <<"200">> \o message.correlationId.v

\* _onAmqpMessage, with _onResponseMessage and _onPostMessage
TOnAmqpMessage(w, message) ==
  IF message.correlationId.present /\ message.correlationId.v # <<>>
    THEN LET ops == {o \in w.tInternalOperations : o.correlationId = message.correlationId.v}
         IN  IF ops # {}
               THEN LET callback == CHOOSE o \in ops : TRUE
                        w1 == [w EXCEPT !.tInternalOperations = @ \ ops]
                    IN  IF callback.k = "subscribed"
                          THEN TEmit(w1, subscribedEvent, <<postEvent>>)
                          ELSE w1
               ELSE TEmit(w, responseEvent, Response(message))
  ELSE IF message.data
    THEN TEmit(w, postEvent, <<"data">>)
  ELSE w

RECURSIVE TEmitMessage(_, _, _)
\* a downstream link object emits 'message' to each of its listeners
TEmitMessage(w, n, message) ==
  IF n = 0 \/ w.exc # None
    THEN w
    ELSE TEmitMessage(TOnAmqpMessage(w, message), n - 1, message)

\* the promise of an upstream link send that was given a done callback
\* settled: _safeCallback schedules done
TSendSettled(w, done, err) ==
  [w EXCEPT !.tInflight = @ \ {done},
            !.ticks = Append(@, [cb |-> done, err |-> err])]

\* on(eventName, listener): 'newListener' is emitted before the listener is added
TOn(w, eventName) ==
  LET add(x) == [x EXCEPT !.tListeners[eventName] = @ + 1]
  IN  Then(DoTHandle(w, "handleNewListener", TArg(eventName, NoRequest, NoCb)), add)

\* removeListener(eventName, listener): 'removeListener' is emitted after the
\* listener is removed
TRemoveListener(w, eventName) ==
  DoTHandle([w EXCEPT !.tListeners[eventName] = @ - 1],
            "handleRemoveListener", TArg(eventName, NoRequest, NoCb))

\* sendTwinRequest(method, resource, properties, body, done)
sendTwinRequest(w, req, done) == DoTHandle(w, "sendTwinRequest", TArg("", req, done))

\* Do runs the operation a call names, on the arguments of the call
Do(c) ==
  CASE c.f = "Invoke" -> Invoke(c.a1, c.a2, c.a3)
    [] c.f = "SHandle" -> SHandle(c.a1, c.a2, c.a3)
    [] c.f = "STransition" -> STransition(c.a1, c.a2)
    [] c.f = "SReplay" -> SReplay(c.a1, c.a2)
    [] c.f = "SFailQueue" -> SFailQueue(c.a1, c.a2)
    [] c.f = "SDrainQueue" -> SDrainQueue(c.a1)
    [] c.f = "RHandle" -> RHandle(c.a1, c.a2, c.a3)
    [] c.f = "RTransition" -> RTransition(c.a1, c.a2)
    [] c.f = "RReplay" -> RReplay(c.a1, c.a2)
    [] c.f = "RAttachDone" -> RAttachDone(c.a1, c.a2)
    [] c.f = "REmitError" -> REmitError(c.a1, c.a2)
    [] c.f = "CTransition" -> CTransition(c.a1, c.a2)
    [] c.f = "CHandle" -> CHandle(c.a1, c.a2, c.a3)
    [] c.f = "CReplay" -> CReplay(c.a1, c.a2)
    [] c.f = "CSenderAttachDone" -> CSenderAttachDone(c.a1, c.a2, c.a3)
    [] c.f = "CReceiverAttachDone" -> CReceiverAttachDone(c.a1, c.a2, c.a3)
    [] c.f = "CSendDone" -> CSendDone(c.a1, c.a2, c.a3)
    [] c.f = "CMessageHandler" -> CMessageHandler(c.a1, c.a2)
    [] c.f = "THandle" -> THandle(c.a1, c.a2, c.a3)
    [] c.f = "TTransition" -> TTransition(c.a1, c.a2)
    [] c.f = "TReplay" -> TReplay(c.a1, c.a2)
    [] c.f = "THandleError" -> THandleError(c.a1, c.a2)

(***************************************************************************)
(* Initial state: the objects as their constructors leave them             *)
(***************************************************************************)
Init ==
  /\ tState = "disconnected"
  /\ tInputQueue = <<>>
  /\ tDownstreamAmqpLink = 0
  /\ tUpstreamAmqpLink = 0
  /\ tInternalOperations = {}
  /\ tDetachedListeners = {}
  /\ tMessageListeners = <<>>
  /\ tAttaches = <<>>
  /\ tDetaches = <<>>
  /\ tLinks = <<>>
  /\ tAttached = {}
  /\ tInflight = {}
  /\ tSent = <<>>
  /\ tEmitted = <<>>
  /\ tRequests = 0
  /\ tMessagesIn = 0
  /\ tReceived = <<>>
  /\ cState = "detached"
  /\ cInputQueue = <<>>
  /\ cAttachCallback = NoCb
  /\ cEpisodes = <<>>
  /\ outstandingPutTokens = <<>>
  /\ timeoutTimer = 0
  /\ timers = {}
  /\ advances = 0
  /\ now = 0
  /\ putCalls = 0
  /\ uuids = 0
  /\ received = {}
  /\ op = ""
  /\ rState = "detached"
  /\ rInExit = FALSE
  /\ rInputQueue = <<>>
  /\ rLinkObject = 0
  /\ rAttachCallback = NoCb
  /\ rCreates = <<>>
  /\ rCreated = 0
  /\ rClientListeners = 0
  /\ rLinkListeners = {}
  /\ rMessageListeners = <<>>
  /\ accepted = <<>>
  /\ listenIssued = 0
  /\ messagesIn = 0
  /\ sState = "detached"
  /\ sInExit = FALSE
  /\ sInputQueue = <<>>
  /\ sLinkObject = 0
  /\ sMessageQueue = <<>>
  /\ sAttachError = None
  /\ sAttachCallback = NoCb
  /\ sCreates = <<>>
  /\ sCreated = 0
  /\ sClientListeners = 0
  /\ sDetachListeners = {}
  /\ sInflight = {}
  /\ linkSent = <<>>
  /\ ticks = <<>>
  /\ log = <<>>
  /\ sendsIssued = 0
  /\ attachIssued = 0
  /\ calls = 0
  /\ visited = <<>>
  /\ failed = <<>>
  /\ raised = None
  /\ crashed = FALSE

(***************************************************************************)
(* Steps of a program that uses a SenderLink directly                      *)
(***************************************************************************)
\* SenderLink.send(message, callback)
Send ==
  /\ ~crashed
  /\ calls < MaxCalls
  /\ sendsIssued < MaxSend
  /\ LET i == sendsIssued + 1
     IN  Commit(DoSHandle([Begin("send") EXCEPT !.sendsIssued = i, !.calls = @ + 1], "send",
                        [msg |-> i, cb |-> UserSendCb(i)]))

\* SenderLink.attach(callback)
Attach ==
  /\ ~crashed
  /\ calls < MaxCalls
  /\ LET i == attachIssued + 1
     IN  Commit(DoSHandle([Begin("attach") EXCEPT !.attachIssued = i, !.calls = @ + 1], "attach",
                        [msg |-> 0, cb |-> UserAttachCb(i)]))

\* SenderLink.detach()
Detach ==
  /\ ~crashed
  /\ calls < MaxCalls
  /\ Commit(DoSHandle([Begin("detach") EXCEPT !.calls = @ + 1], "detach", NoArg))

\* the amqp10 client resolves a createSender promise with a new link object
CreateSenderResolves ==
  /\ ~crashed
  /\ \E i \in 1..Len(sCreates) : Commit(SCreateThen(Begin("createSender resolved"), i))

\* the amqp10 client rejects a createSender promise
CreateSenderRejects ==
  /\ ~crashed
  /\ \E i \in 1..Len(sCreates) : Commit(SCreateCatch(Begin("createSender rejected"), i, FakeErr))

\* the amqp10 client emits client:errorReceived while a createSender is pending
ClientErrorReceived ==
  /\ ~crashed
  /\ \/ \E i \in 1..Len(sCreates) : sCreates[i] = None
     \/ \E i \in 1..Len(rCreates) : rCreates[i] = None
  /\ Commit(ClientErrorHandlers(Begin("client:errorReceived"), ConnErr))

\* a link object that carries _detachHandler emits 'detached'
SenderDetachedEvent ==
  /\ ~crashed
  /\ sLinkObject \in sDetachListeners
  /\ Commit(Uncaught(SDetachHandler(Begin("sender detached"))))

\* the promise of a linkObject.send settles: fulfilled, or rejected
SendSettles ==
  /\ ~crashed
  /\ \E x \in sInflight : \E err \in {None, SendErr} :
       Commit(SSendSettled(Begin("send settled"), x, err))

\* the event loop runs a process.nextTick callback
Tick ==
  /\ ~crashed
  /\ ticks # <<>>
  /\ Commit(RunTick(Begin("tick")))

NextSender ==
  \/ Send
  \/ Attach
  \/ Detach
  \/ CreateSenderResolves
  \/ CreateSenderRejects
  \/ ClientErrorReceived
  \/ SenderDetachedEvent
  \/ SendSettles
  \/ Tick

\* No listener has been added to an AmqpTwinReceiver
NoTwinListeners == tListeners = [e \in TwinEvents \cup {errorEvent} |-> 0]

InitSender == Init /\ uses = "SenderLink" /\ rErrorListener = FALSE /\ NoTwinListeners

SpecSender == InitSender /\ [][NextSender]_vars

(***************************************************************************)
(* Steps of a program that uses an AmqpReceiverLinkFsm directly            *)
(***************************************************************************)
\* AmqpReceiverLinkFsm.attach(callback)
ReceiverAttach ==
  /\ ~crashed
  /\ calls < MaxCalls
  /\ LET i == attachIssued + 1
     IN  Commit(DoRHandle([Begin("attach") EXCEPT !.attachIssued = i, !.calls = @ + 1], "attach",
                        [msg |-> 0, cb |-> UserAttachCb(i)]))

\* AmqpReceiverLinkFsm.detach()
ReceiverDetach ==
  /\ ~crashed
  /\ calls < MaxCalls
  /\ Commit(DoRHandle([Begin("detach") EXCEPT !.calls = @ + 1], "detach", NoArg))

\* on('message', listener)
ReceiverAddListener ==
  /\ ~crashed
  /\ calls < MaxCalls
  /\ LET i == listenIssued + 1
     IN  Commit(RNewListener([Begin("on message") EXCEPT !.listenIssued = i, !.calls = @ + 1],
                             UserMessageCb(i)))

\* removeListener('message', listener)
ReceiverRemoveListener ==
  /\ ~crashed
  /\ calls < MaxCalls
  /\ \E i \in 1..Len(rMessageListeners) :
       Commit(RRemoveListener([Begin("removeListener message") EXCEPT !.calls = @ + 1], i))

\* AmqpReceiverLinkFsm.accept(message) for a message received earlier
ReceiverAccept ==
  /\ ~crashed
  /\ \E m \in 1..messagesIn :
       /\ \A j \in 1..Len(accepted) : accepted[j] # m
       /\ \A j \in 1..Len(rInputQueue) : rInputQueue[j].arg.msg # m
       /\ calls < MaxCalls
       /\ Commit(DoRHandle([Begin("accept") EXCEPT !.calls = @ + 1], "accept",
                         [msg |-> m, cb |-> UserAcceptCb(m)]))

CreateReceiverResolves ==
  /\ ~crashed
  /\ \E i \in 1..Len(rCreates) : Commit(RCreateThen(Begin("createReceiver resolved"), i))

CreateReceiverRejects ==
  /\ ~crashed
  /\ \E i \in 1..Len(rCreates) : Commit(RCreateCatch(Begin("createReceiver rejected"), i, FakeErr))

\* a link object that carries _detachHandler emits 'detached'
ReceiverDetachedEvent ==
  /\ ~crashed
  /\ \E l \in rLinkListeners : \E err \in {None, LinkDetached} :
       Commit(Uncaught(RDetachHandler(Begin("receiver detached"), err)))

\* a link object that carries _messageHandler emits 'message'
ReceiverMessageEvent ==
  /\ ~crashed
  /\ messagesIn < MaxMessage
  /\ rLinkObject \in rLinkListeners
  /\ LET m == messagesIn + 1
     IN  Commit(Uncaught(REmitMessage([Begin("message") EXCEPT !.messagesIn = m],
                                      rMessageListeners, m)))

NextReceiver ==
  \/ ReceiverAttach
  \/ ReceiverDetach
  \/ ReceiverAddListener
  \/ ReceiverRemoveListener
  \/ ReceiverAccept
  \/ CreateReceiverResolves
  \/ CreateReceiverRejects
  \/ ClientErrorReceived
  \/ ReceiverDetachedEvent
  \/ ReceiverMessageEvent
  \/ Tick

InitReceiver == Init /\ uses = "ReceiverLink" /\ rErrorListener = TRUE /\ NoTwinListeners

SpecReceiver == InitReceiver /\ [][NextReceiver]_vars

\* A program that constructed one link object, a SenderLink or a ReceiverLink
InitLinks == InitSender \/ InitReceiver

NextLinks ==
  \/ uses = "SenderLink" /\ NextSender
  \/ uses = "ReceiverLink" /\ NextReceiver

SpecLinks == InitLinks /\ [][NextLinks]_vars

(***************************************************************************)
(* Steps of a program that uses a ClaimsBasedSecurityAgent                 *)
(***************************************************************************)
\* ClaimsBasedSecurityAgent.attach(callback)
CbsAttach ==
  /\ ~crashed
  /\ calls < MaxCbsCalls
  /\ LET i == attachIssued + 1
     IN  Commit(CAttach([Begin("attach") EXCEPT !.attachIssued = i, !.calls = @ + 1],
                        UserAttachCb(i)))

\* ClaimsBasedSecurityAgent.detach(callback)
CbsDetach ==
  /\ ~crashed
  /\ calls < MaxCbsCalls
  /\ LET i == attachIssued + 1
     IN  Commit(CDetach([Begin("detach") EXCEPT !.attachIssued = i, !.calls = @ + 1],
                        UserDetachCb(i)))

\* ClaimsBasedSecurityAgent.putToken(audience, token, putTokenCallback)
CbsPutToken ==
  /\ ~crashed
  /\ calls < MaxCbsCalls
  /\ putCalls < MaxPut
  /\ LET i == putCalls + 1
     IN  Commit(CPutToken([Begin("putToken") EXCEPT !.putCalls = i, !.calls = @ + 1],
                          UserPutCb(i)))

\* the $cbs receiver link object emits a message: a response to a put token
\* request the sender link object was given, early, late or repeated, with
\* status-code 200 or another one
CbsResponse ==
  /\ ~crashed
  /\ messagesIn < MaxMessage
  /\ rLinkObject \in rLinkListeners
  /\ \E c \in {linkSent[i] : i \in 1..Len(linkSent)} : \E status \in {200, 401} :
       LET m == [n |-> messagesIn + 1, correlationId |-> c, status |-> status]
           w == [Begin("message") EXCEPT !.messagesIn = m.n,
                                        !.received = @ \cup {[correlationId |-> c,
                                                              status |-> status]}]
       IN  Commit(Uncaught(REmitMessage(w, rMessageListeners, m)))

\* time passes while a timer is armed
TimePasses ==
  /\ ~crashed
  /\ timers # {}
  /\ \E d \in TimeSteps :
       /\ advances < MaxAdvance
       /\ Commit([Begin("time") EXCEPT !.now = @ + d, !.advances = @ + 1])

\* an armed timer that is due fires: _removeExpiredPutTokens
TimerFires ==
  /\ ~crashed
  /\ \E t \in timers :
       /\ t.due <= now
       /\ Commit(Uncaught(CRemoveExpiredPutTokens(
                    [Begin("timer") EXCEPT !.timers = @ \ {t}])))

NextCbs ==
  \/ CbsAttach
  \/ CbsDetach
  \/ CbsPutToken
  \/ CbsResponse
  \/ TimePasses
  \/ TimerFires
  \/ CreateSenderResolves
  \/ CreateSenderRejects
  \/ CreateReceiverResolves
  \/ CreateReceiverRejects
  \/ ClientErrorReceived
  \/ SenderDetachedEvent
  \/ ReceiverDetachedEvent
  \/ SendSettles
  \/ Tick

InitCbs == Init /\ uses = "CbsAgent" /\ rErrorListener = FALSE /\ NoTwinListeners

SpecCbs == InitCbs /\ [][NextCbs]_vars

(***************************************************************************)
(* Steps of a program that uses an AmqpTwinReceiver                        *)
(***************************************************************************)
validRequest ==
  Request(Val("string", <<"PATCH">>), Val("string", <<"/properties/reported", "/">>),
          Obj(<<[key |-> "$rid", val |-> Val("string", <<"7">>)]>>), Val("string", <<"{}">>))

\* The calls of sendTwinRequest the program makes: two that pass the checks
\* of _sendTwinRequest, a PATCH and a GET, and one that fails each of them
TwinRequests ==
  {validRequest,
   [validRequest EXCEPT !.method = Val("string", <<"GET">>)],
   [validRequest EXCEPT !.body = Val("number", <<"0">>)],
   [validRequest EXCEPT !.method = Val("number", <<"5">>)],
   [validRequest EXCEPT !.properties = Obj(<<[key |-> "$rid", val |-> Obj(<<>>)]>>)]}

\* on(eventName, listener)
TwinOn ==
  /\ ~crashed
  /\ calls < MaxTwinCalls
  /\ \E e \in TwinEvents :
       /\ tListeners[e] < MaxTwinListeners
       /\ Commit(TOn([Begin("on") EXCEPT !.calls = @ + 1], e))

\* removeListener(eventName, listener) of a listener added before
TwinRemoveListener ==
  /\ ~crashed
  /\ calls < MaxTwinCalls
  /\ \E e \in TwinEvents :
       /\ tListeners[e] > 0
       /\ Commit(TRemoveListener([Begin("removeListener") EXCEPT !.calls = @ + 1], e))

\* sendTwinRequest(method, resource, properties, body, done)
TwinSendTwinRequest ==
  /\ ~crashed
  /\ calls < MaxTwinCalls
  /\ tRequests < MaxTwinRequests
  /\ \E req \in TwinRequests :
       LET i == tRequests + 1
       IN  Commit(sendTwinRequest([Begin("sendTwinRequest") EXCEPT !.tRequests = i,
                                                                  !.calls = @ + 1],
                                  req, UserTwinCb(i)))

\* The callbacks of process.nextTick run before the event loop takes up the
\* next event of the client or of a link object.
\* the client answers the attachReceiverLink or attachSenderLink call it was
\* given first
TwinAttachAnswered ==
  /\ ~crashed
  /\ ticks = <<>>
  /\ tAttaches # <<>>
  /\ \E err \in {None, UnauthorizedAccess} :
       Commit(TAttachAnswered(Begin("attach answered"), 1, err))

\* the client answers the detachSenderLink or detachReceiverLink call it was
\* given first
TwinDetachAnswered ==
  /\ ~crashed
  /\ ticks = <<>>
  /\ tDetaches # <<>>
  /\ \E err \in {None, UnauthorizedAccess} :
       Commit(TDetachAnswered(Begin("detach answered"), 1, err))

\* an attached link object emits 'detached': the peer detached the link
TwinLinkDetached ==
  /\ ~crashed
  /\ ticks = <<>>
  /\ \E l \in tAttached :
       Commit(Uncaught(TOnAmqpDetached(Begin("link detached"), l)))

\* The messages the service sends: the answer to a PUT or DELETE that is
\* outstanding, the answer to the program's request, a desired properties
\* update, and one with neither a correlation id nor data
TwinInbound ==
  {[correlationId |-> Present(o.correlationId), data |-> TRUE] : o \in tInternalOperations}
    \cup {[correlationId |-> Present(<<"7">>), data |-> TRUE],
          [correlationId |-> Absent, data |-> TRUE], [correlationId |-> Absent, data |-> FALSE]}

\* an attached downstream link object that carries _boundMessageHandler emits
\* 'message'
TwinMessageEvent ==
  /\ ~crashed
  /\ ticks = <<>>
  /\ tMessagesIn < MaxTwinMessage
  /\ \E l \in tAttached : \E message \in TwinInbound :
       LET n == Cardinality({i \in 1..Len(tMessageListeners) : tMessageListeners[i] = l})
       IN  /\ tLinks[l] = "receiver"
           /\ n > 0
           /\ Commit(Uncaught(TEmitMessage(
                       [Begin("twin message") EXCEPT !.tMessagesIn = @ + 1,
                                                     !.tReceived = Append(@, message)],
                       n, message)))

\* the promise of an upstream link send settles: fulfilled, or rejected
TwinSendSettles ==
  /\ ~crashed
  /\ ticks = <<>>
  /\ \E done \in tInflight : \E err \in {None, SendErr} :
       Commit(TSendSettled(Begin("twin send settled"), done, err))

NextTwin ==
  \/ TwinOn
  \/ TwinRemoveListener
  \/ TwinSendTwinRequest
  \/ TwinAttachAnswered
  \/ TwinDetachAnswered
  \/ TwinLinkDetached
  \/ TwinMessageEvent
  \/ TwinSendSettles
  \/ Tick

\* The program has constructed an AmqpTwinReceiver and may have added a
\* listener to its 'error' event, which the state machine does not react to
InitTwin ==
  /\ Init
  /\ uses = "TwinClient"
  /\ rErrorListener = FALSE
  /\ \E n \in {0, 1} :
       tListeners = [e \in TwinEvents \cup {errorEvent} |-> IF e = errorEvent THEN n ELSE 0]

SpecTwin == InitTwin /\ [][NextTwin]_vars

(***************************************************************************)
(* Observations used by the properties                                     *)
(***************************************************************************)
\* The number of times callback cb has been invoked so far
Count(cb) == Cardinality({i \in 1..Len(log) : log[i].cb = cb})

\* The positions of the log at which callback cb was invoked
Calls(cb) == {i \in 1..Len(log) : log[i].cb = cb}

\* Nothing is pending on the sender side: no createSender promise, no
\* linkObject.send promise, no process.nextTick callback, and the process runs
SQuiescent == sCreates = <<>> /\ sInflight = {} /\ ticks = <<>> /\ ~crashed

(***************************************************************************)
(* SenderLink: completion of sends                                         *)
(***************************************************************************)
\* C1: every send(m, done) issued on a SenderLink has its done invoked at most
\* once, and exactly once as soon as nothing is pending on the link any more.
C1_SendDoneExactlyOnce ==
  \A i \in 1..sendsIssued :
    /\ Count(UserSendCb(i)) <= 1
    /\ SQuiescent => Count(UserSendCb(i)) = 1

\* C2: the messages handed to linkObject.send are handed over in the order in
\* which they were passed to SenderLink.send.
C2_SubmissionOrder ==
  \A i, j \in 1..Len(linkSent) : i < j => linkSent[i] < linkSent[j]

\* C5: when an attach of the SenderLink fails, the link is back in Detached with
\* an empty queue, and the callbacks of the sends that were queued have been
\* invoked one after the other, in queue order, with the error of that failure.
C5_AttachFailureFailsQueue ==
  \A k \in 1..Len(failed) :
    LET f == failed[k]
    IN  /\ sState = "detached"
        /\ sMessageQueue = <<>>
        /\ \E base \in 0..Len(log) :
             \A i \in 1..Len(f.queue) :
               /\ base + i <= Len(log)
               /\ log[base + i] = [cb |-> f.queue[i].cb, err |-> f.err, msg |-> 0]

(***************************************************************************)
(* SenderLink and AmqpReceiverLinkFsm: the link object                     *)
(***************************************************************************)
\* C6: a SenderLink or AmqpReceiverLinkFsm whose state machine is in
\* 'detached' holds no link object.  The callback of an attach that a later
\* attach has superseded still acts: one createSender promise resolves and
\* stores its link object, and the other then rejects and moves the state
\* machine to 'detached' with that link object kept.
C6_DetachedHoldsNoLink ==
  /\ sState = "detached" => sLinkObject = 0
  /\ rState = "detached" => rLinkObject = 0

(***************************************************************************)
(* ClaimsBasedSecurityAgent: put token operations                          *)
(***************************************************************************)
\* The number of entries of outstandingPutTokens that carry callback cb
Pending(cb) ==
  Cardinality({i \in 1..Len(outstandingPutTokens) : outstandingPutTokens[i].cb = cb})

\* The put token callbacks that are pending or have been invoked
Settling == {i \in 1..putCalls : Pending(UserPutCb(i)) + Count(UserPutCb(i)) > 0}

C4_SuccessOnlyAfterResponse ==
  \A n \in 1..Len(log) :
    log[n].cb.k = "uPut" =>
      /\ log[n].err = None =>
           [correlationId |-> log[n].cb.id, status |-> 200] \in received
      /\ log[n].err = UnauthorizedError =>
           \E r \in received : r.correlationId = log[n].cb.id /\ r.status # 200

(***************************************************************************)
(* ClaimsBasedSecurityAgent: attach and detach                             *)
(***************************************************************************)
\* Nothing is pending in the agent's links: no createSender or createReceiver
\* promise, no process.nextTick callback, and the process runs
CQuiescent == sCreates = <<>> /\ rCreates = <<>> /\ ticks = <<>> /\ ~crashed

\* The step in which ClaimsBasedSecurityAgent._fsm enters 'attached'
CEntersAttached == cState # "attached" /\ cState' = "attached"

\* C7 (as stated): when the agent enters 'attached' both links are attached
\* and the correlation handler listens to the receiver link's messages.
C7_AttachedWithBothLinksAttached ==
  [][CEntersAttached =>
       /\ sState' = "attached"
       /\ rState' = "attached"
       /\ \E i \in 1..Len(rMessageListeners') : rMessageListeners'[i] = CbsMessageCb]_vars

\* C7 (amended): when the agent enters 'attached', the attach callbacks of both
\* links have reported success in this attach, each link object was created,
\* the receiver link is attached and the correlation handler listens to its
\* messages; the sender link may have left 'attached' since its success.
C7_AttachedAfterBothSucceeded ==
  [][CEntersAttached =>
       /\ cEpisodes' # <<>>
       /\ cEpisodes'[Len(cEpisodes')].senderAttached
       /\ cEpisodes'[Len(cEpisodes')].receiverAttached
       /\ cEpisodes'[Len(cEpisodes')].error = None
       /\ sCreated' >= 1 /\ rCreated' >= 1
       /\ sState' \in {"attached", "detached"}
       /\ rState' = "attached" /\ rLinkObject' # 0
       /\ \E i \in 1..Len(rMessageListeners') : rMessageListeners'[i] = CbsMessageCb]_vars

\* The agent has just entered 'attached', in the tick that completes the
\* receiver link's attach, after the sender link, attached earlier, detached
C7_EnteredWithSenderDetached ==
  /\ op = "tick"
  /\ putCalls = 0
  /\ cState = "attached"
  /\ rState = "attached"
  /\ sState = "detached"
  /\ log = <<[cb |-> UserAttachCb(1), err |-> None, msg |-> 0]>>

\* C8: the callback of every attach issued while the agent is detached is
\* invoked at most once, exactly once as soon as nothing is pending, without
\* an error if both links attached and else with the first failure's error.
C8_AttachDoneExactlyOnce ==
  \A e \in 1..Len(cEpisodes) :
    LET done == cEpisodes[e].done
    IN  done.k = "uAttach" =>
          /\ Count(done) <= 1
          /\ CQuiescent => Count(done) = 1
          /\ \A n \in Calls(done) : log[n].err = cEpisodes[e].error

\* C9: once an attach of the agent has failed and nothing is pending, the agent
\* and both of its links are detached.
C9_FailedAttachEndsDetached ==
  (/\ cEpisodes # <<>>
   /\ cEpisodes[Len(cEpisodes)].error # None
   /\ CQuiescent)
  => cState = "detached" /\ sState = "detached" /\ rState = "detached"

\* C10: detach(done) on an attached agent leaves the agent and both links
\* detached, and detach(done) never calls createSender or createReceiver.
C10_DetachDetaches ==
  [][op' = "detach" =>
       /\ sCreated' = sCreated /\ rCreated' = rCreated
       /\ cState = "attached" =>
            cState' = "detached" /\ sState' = "detached" /\ rState' = "detached"]_vars

(***************************************************************************)
(* ClaimsBasedSecurityAgent: time out of put tokens, accepting responses   *)
(***************************************************************************)
\* The user callbacks the step invoked, in order
Invoked == SubSeq(log', Len(log) + 1, Len(log'))

\* The put tokens that are outstanding and past their expirationTime, which
\* is the time of attached.putToken plus numberOfSecondsToTimeout
Expired == {i \in 1..Len(outstandingPutTokens) : outstandingPutTokens[i].expirationTime < now}

\* C11: a put token that got neither a response nor a send error ends with
\* TimeoutError: its callback is invoked with no error only after a response,
\* with TimeoutError only once its expirationTime has passed, and the first
\* run of _removeExpiredPutTokens after that invokes it and removes the token.
C11_TimeoutAtFirstSweepAfterDeadline ==
  [][/\ \A n \in 1..Len(Invoked) :
          Invoked[n].cb.k = "uPut" =>
            /\ Invoked[n].err = TimeoutError =>
                 \E i \in Expired : outstandingPutTokens[i].cb = Invoked[n].cb
            /\ Invoked[n].err = None =>
                 \E r \in received' : r.correlationId = Invoked[n].cb.id
     /\ op' = "timer" =>
          /\ \A i \in Expired :
               \E n \in 1..Len(Invoked) :
                 Invoked[n] = [cb |-> outstandingPutTokens[i].cb, err |-> TimeoutError, msg |-> 0]
          /\ \A j \in 1..Len(outstandingPutTokens') :
               outstandingPutTokens'[j].expirationTime >= now']_vars

\* C12: every message the $cbs receiver link object has emitted was handed to
\* linkObject.accept, whether or not a put token was waiting for it.
C12_EveryMessageAccepted ==
  \A m \in 1..messagesIn : \E j \in 1..Len(accepted) : accepted[j] = m

\* The receiver link object emitted a response to a put token that the
\* callback of the send had completed already: no put token waited for the
\* message, and it was accepted
C12_UnmatchedAccepted ==
  /\ op = "message"
  /\ accepted = <<1>>
  /\ outstandingPutTokens = <<>>
  /\ \E r \in received : r.correlationId = 1
  /\ Count(UserPutCb(1)) = 1
  /\ ~crashed

(***************************************************************************)
(* AmqpTwinReceiver                                                        *)
(***************************************************************************)
\* The state machine rests: no call of the client awaits its answer, no
\* process.nextTick callback is queued and no input is deferred
TQuiescent ==
  /\ tState \in {"connected", "disconnected"}
  /\ tAttaches = <<>>
  /\ tDetaches = <<>>
  /\ tInflight = {}
  /\ ticks = <<>>
  /\ tInputQueue = <<>>

\* C13: whenever the AmqpTwinReceiver has no 'response' and no 'post'
\* listener and its state machine rests, _boundMessageHandler is registered
\* on no downstream link object, whatever calls and attach outcomes led there.
C13_NoListenersNoMessageHandler ==
  (~crashed /\ TQuiescent /\ tListeners[responseEvent] = 0 /\ tListeners[postEvent] = 0)
    => tMessageListeners = <<>>

\* the step handles a handleRemoveListener input in 'connected' while the
\* AmqpTwinReceiver has no 'response' and no 'post' listener left: the
\* removal itself, or its replay on entering 'connected'
TLastListenerRemoved ==
  LET none == tListeners'[responseEvent] = 0 /\ tListeners'[postEvent] = 0
      deferred(d) == d.input = "handleRemoveListener" /\ d.until = "connected"
  IN  \/ op' = "removeListener" /\ tState = "connected" /\ none
      \/ /\ \E i \in 1..Len(visited') : visited'[i] = "connected"
         /\ SelectSeq(tInputQueue, deferred) # <<>>
         /\ none

\* the detach calls the step made on the client
TDetachesRequested ==
  LET answered == IF op' = "detach answered" THEN 1 ELSE 0
  IN  SubSeq(tDetaches', Len(tDetaches) - answered + 1, Len(tDetaches'))

\* C14: when the 'response' and 'post' listener counts of a connected
\* AmqpTwinReceiver both reach zero, also by a removal deferred while
\* connecting and replayed on entering 'connected', the state machine goes
\* through 'disconnecting' to 'disconnected' and calls detachSenderLink; the
\* answer to detachSenderLink is followed by the call of detachReceiverLink.
C14_LastRemovalDetachesBothLinks ==
  [][/\ TLastListenerRemoved =>
          /\ \E i \in 1..Len(visited') - 1 :
                visited'[i] = "disconnecting" /\ visited'[i + 1] = "disconnected"
          /\ \E j \in 1..Len(TDetachesRequested) : TDetachesRequested[j].kind = "sender"
     /\ (op' = "detach answered" /\ Head(tDetaches).kind = "sender") =>
          \E j \in 1..Len(TDetachesRequested) : TDetachesRequested[j].kind = "receiver"]_vars

\* C15: the two links live and die together: while the AmqpTwinReceiver is
\* 'connected' its downstream and its upstream link object are both attached,
\* and once it is 'disconnected' and the client has answered every detach
\* call no link object it was given is attached, also when the peer detaches
\* the receiver link while the sender link is attaching.
C15_LinkPairLifetimeCoupled ==
  /\ (~crashed /\ tState = "connected") =>
        {tDownstreamAmqpLink, tUpstreamAmqpLink} \subseteq tAttached
  /\ (~crashed /\ tState = "disconnected" /\ tDetaches = <<>>) => tAttached = {}

\* _handleError was scheduled with err by the step, as its last callback
TErrorScheduled(err) ==
  /\ Len(ticks') = Len(ticks) + 1
  /\ ticks'[Len(ticks')] = [cb |-> TwinHandleErrorCb, err |-> err]

TAttachFailed(kind) ==
  /\ op' = "attach answered"
  /\ Head(tAttaches).kind = kind
  /\ Len(tLinks') = Len(tLinks)

TNotificationRequests(operation) ==
  LET hit(x) == /\ x.message.operation = <<operation>>
                /\ x.message.resource = Present(notificationsResource)
  IN  SelectSeq(tSent', hit)

\* the correlation ids of these messages were generated in this step and
\* differ from each other
TFreshCorrelationIds(sent) ==
  /\ \A i \in 1..Len(sent) :
        \E n \in (uuids + 1)..uuids' : sent[i].message.correlationId = Present(Uuid(n))
  /\ \A i, j \in 1..Len(sent) :
        sent[i].message.correlationId = sent[j].message.correlationId => i = j

\* the handleNewListener inputs for 'post' deferred in queue q
TPostRegistrationsDeferred(q) ==
  LET hit(d) == d.input = "handleNewListener" /\ d.arg.eventName = postEvent
  IN  Len(SelectSeq(q, hit))

\* C18: every registration of a 'post' listener is answered, once the
\* AmqpTwinReceiver is 'connected', by one PUT to
\* /notifications/twin/properties/desired with a fresh correlation id: after
\* each step a registration is either still deferred or its PUT was sent; and
\* subscribed {eventName: 'post'} is emitted only on a message whose
\* correlationId is that of a PUT not answered before.
C18_PostRegistrationPutAndSubscribed ==
  [][/\ LET registered == IF op' = "on" /\ tListeners'[postEvent] > tListeners[postEvent]
                            THEN 1 ELSE 0
        IN  /\ Len(TNotificationRequests("PUT")) =
                 TPostRegistrationsDeferred(tInputQueue) + registered
                   - TPostRegistrationsDeferred(tInputQueue')
            /\ TFreshCorrelationIds(TNotificationRequests("PUT"))
     /\ \A i \in 1..Len(tEmitted') :
          tEmitted'[i] = [eventName |-> subscribedEvent, arg |-> <<postEvent>>] =>
            /\ op' = "twin message"
            /\ Len(tReceived') = 1
            /\ tReceived'[1].correlationId.present
            /\ [correlationId |-> tReceived'[1].correlationId.v, k |-> "subscribed"]
                 \in tInternalOperations \ tInternalOperations'
            /\ \A j \in 1..Len(tEmitted') : tEmitted'[j] = tEmitted'[i] => j = i]_vars

\* C19: a removeListener call on a 'connected' AmqpTwinReceiver that takes
\* the last 'post' listener away sends exactly one DELETE to
\* /notifications/twin/properties/desired, with a fresh correlation id; one
\* that leaves a 'post' listener, or removes a listener of another event,
\* sends no DELETE.
C19_LastPostRemovalSendsOneDelete ==
  [][(op' = "removeListener" /\ tState = "connected") =>
        LET last == tListeners[postEvent] = 1 /\ tListeners'[postEvent] = 0
        IN  /\ Len(TNotificationRequests("DELETE")) = IF last THEN 1 ELSE 0
            /\ TFreshCorrelationIds(TNotificationRequests("DELETE"))
            /\ last => /\ Len(tSent') = 1
                       /\ tSent'[1].link = tUpstreamAmqpLink]_vars

\* the last 'post' listener was removed from a 'connected' AmqpTwinReceiver
\* that keeps a 'response' listener
C19_LastPostListenerRemoved ==
  /\ op = "removeListener"
  /\ tState = "connected"
  /\ tListeners[postEvent] = 0
  /\ tListeners[responseEvent] = 1
  /\ Len(tSent) = 1
  /\ tSent[1].message.operation = <<"DELETE">>
  /\ tSent[1].message.resource = Present(notificationsResource)
  /\ ~crashed

\* C20: a sendTwinRequest call whose arguments fail the checks of
\* _sendTwinRequest throws ReferenceError or ArgumentError to its caller in
\* every state and never reaches the state machine: a call that is deferred
\* or sent has valid arguments, and a call that throws leaves the state, the
\* attach calls and the deferred inputs as they were.
C20_InvalidRequestThrowsAtCall ==
  [][op' = "sendTwinRequest" =>
        /\ Len(tInputQueue') > Len(tInputQueue) =>
              Validate(tInputQueue'[Len(tInputQueue')].arg.req) = None
        /\ raised' # None =>
              /\ raised' \in {ReferenceError, ArgumentError}
              /\ tState' = tState
              /\ tAttaches' = tAttaches
              /\ tInputQueue' = tInputQueue]_vars

\* C21: a message _sendTwinRequest encodes carries the version annotation,
\* with the value null, exactly when the method is PATCH; for every other
\* method the message has no version annotation.
C21_VersionAnnotationOnlyOnPatch ==
  [][\A i \in 1..Len(tSent') :
        tSent'[i].message.version =
          IF tSent'[i].message.operation = <<"PATCH">> THEN Present(<<"null">>) ELSE Absent]_vars
  /\ \A req \in TwinRequests :
        Validate(req) = None =>
          TwinMessage(req).version =
            IF req.method.v = <<"PATCH">> THEN Present(<<"null">>) ELSE Absent

\* a request of a method other than PATCH was sent on the upstream link
C21_GetSent ==
  /\ op = "sendTwinRequest"
  /\ Len(tSent) = 1
  /\ tSent[1].message.operation = <<"GET">>
  /\ tSent[1].message.version = Absent
  /\ ~crashed

(***************************************************************************)
(* SenderLink and AmqpReceiverLinkFsm: delivery of callbacks               *)
(***************************************************************************)
\* C22: a callback the program passed to attach, send or accept is invoked
\* only by a process.nextTick callback: never inside the public method call
\* that passed it, and never inside a transition of the state machine run by
\* a promise or an event of the link object.
C22_UserCallbacksOnLaterTick ==
  [][\A i \in 1..Len(Invoked) :
        Invoked[i].cb.k \in {"uAttach", "uSend", "uAccept"} => op' = "tick"]_vars

(***************************************************************************)
(* SenderLink: attach, createSender, detach                                *)
(***************************************************************************)
\* C23: every attach(done) issued on a SenderLink, in whatever state, has its
\* done invoked at most once, and exactly once as soon as nothing is pending
\* on the link any more: an attach issued while 'attaching' is completed with
\* the outcome of the attach.
C23_AttachDoneExactlyOnce ==
  \A i \in 1..attachIssued :
    /\ Count(UserAttachCb(i)) <= 1
    /\ SQuiescent => Count(UserAttachCb(i)) = 1

\* the positions of visited' at which the step entered 'attaching'
SAttachingEntered == {i \in 1..Len(visited') : visited'[i] = "attaching"}

\* C24: createSender is called once for every entry of the SenderLink into
\* 'attaching', an entry that is made from 'detached' only, and at no other
\* time: a send or an attach issued while the link is 'attaching' or
\* 'attached' calls no createSender.
C24_CreateSenderOncePerEpisode ==
  [][/\ sCreated' = sCreated + Cardinality(SAttachingEntered)
     /\ \A i \in SAttachingEntered :
          (IF i = 1 THEN sState ELSE visited'[i - 1]) = "detached"
     /\ (op' \in {"send", "attach"} /\ sState \in {"attaching", "attached"}) =>
          sCreated' = sCreated]_vars

\* a send and an attach were issued on a SenderLink that is attaching or
\* attached, after the one createSender call of the episode
C24_CallsWhileAttachingOrAttached ==
  /\ op \in {"send", "attach"}
  /\ sState \in {"attaching", "attached"}
  /\ visited = <<>>
  /\ sCreated = 1
  /\ sendsIssued >= 2
  /\ attachIssued >= 1
  /\ ~crashed

\* C25: when the link object of an 'attached' SenderLink emits 'detached',
\* the SenderLink goes through 'detaching' to 'detached', where it stays
\* unless an input deferred earlier is replayed there, holds no link object,
\* and its _detachHandler is taken off the link object; an attach issued on
\* a 'detached' SenderLink calls createSender for a new link object.
C25_PeerDetachReturnsToDetached ==
  [][/\ (op' = "sender detached" /\ sState = "attached") =>
          /\ SubSeq(visited', 1, 2) = <<"detaching", "detached">>
          /\ sInputQueue = <<>> => sState' = "detached"
          /\ sLinkObject' = 0
          /\ sLinkObject \notin sDetachListeners'
     /\ (op' = "attach" /\ sState = "detached") =>
          /\ sState' = "attaching"
          /\ sCreated' = sCreated + 1
          /\ Len(sCreates') = Len(sCreates) + 1]_vars

\* the link object of an 'attached' SenderLink emitted 'detached'
C25_PeerDetached ==
  /\ op = "sender detached"
  /\ visited = <<"detaching", "detached">>
  /\ sState = "detached"
  /\ sLinkObject = 0
  /\ sCreated = 1
  /\ sDetachListeners = {}
  /\ ~crashed

(***************************************************************************)
(* AmqpReceiverLinkFsm: peer detach, listeners                             *)
(***************************************************************************)
\* C26: when the link object of an 'attached' AmqpReceiverLinkFsm emits
\* 'detached', the AmqpReceiverLinkFsm is 'detached' again, holds no link
\* object, and its _detachHandler, _messageHandler and _errorHandler are
\* taken off the link object, so that it can be attached again.
C26_ReceiverPeerDetachReturnsToDetached ==
  [][(op' = "receiver detached" /\ rState = "attached") =>
        /\ rState' = "detached"
        /\ rLinkObject' = 0
        /\ rLinkListeners' = rLinkListeners \ {rLinkObject}
        /\ ~rInExit'
        /\ raised' = None]_vars

\* C27: detach() on an 'attaching' SenderLink leaves it 'detached' and, during
\* the call, invokes the callback of every send queued at that time, in queue
\* order, with the attach error stored in _attachError, or else with
\* 'Link Detached'.
C27_DetachWhileAttachingFailsQueue ==
  [][(op' = "detach" /\ sState = "attaching") =>
        /\ raised' = None
        /\ sState' = "detached"
        /\ sMessageQueue' = <<>>
        /\ Invoked = [i \in 1..Len(sMessageQueue) |->
                        [cb |-> sMessageQueue[i].cb,
                         err |-> IF sAttachError # None THEN sAttachError ELSE LinkDetached,
                         msg |-> 0]]]_vars

\* C28: an AmqpReceiverLinkFsm starts attaching when the first 'message'
\* listener is added to it while it is 'detached', and the removal of its
\* last 'message' listener detaches the link: the removal leaves it
\* 'detached' with no link object.
C28_ListenersDriveAttachAndDetach ==
  [][/\ (op' = "on message" /\ rMessageListeners = <<>> /\ rState = "detached") =>
          /\ rState' = "attaching"
          /\ rCreated' = rCreated + 1
     /\ (op' = "removeListener message" /\ rMessageListeners' = <<>>) =>
          /\ rState' = "detached"
          /\ rLinkObject' = 0]_vars


\* C29: detach() on a SenderLink or ReceiverLink that is already Detached,
\* called explicitly or triggered on a ReceiverLink by the removal of its last
\* `message` listener, is a no-op: it raises no error, the state stays
\* Detached, and createSender/createReceiver is not called.
C29_DetachWhenDetachedIsNoOp ==
  [][/\ (uses = "SenderLink" /\ op' = "detach" /\ sState = "detached") =>
          /\ raised' = None
          /\ sState' = "detached"
          /\ sCreated' = sCreated
     /\ (/\ uses = "ReceiverLink"
         /\ \/ op' = "detach"
            \/ op' = "removeListener message" /\ rMessageListeners' = <<>>
         /\ rState = "detached") =>
          /\ raised' = None
          /\ rState' = "detached"
          /\ rCreated' = rCreated]_vars


\* The positions in the callbacks invoked by the step at which cb was invoked
\* with err
InvokedAt(cb, err) ==
  {a \in 1..Len(Invoked) : Invoked[a] = [cb |-> cb, err |-> err, msg |-> 0]}

\* C30: when an attach of a SenderLink that was given a callback fails while
\* sends are queued, the callback of every queued send is invoked before the
\* attach callback, and the attach callback is invoked with the error of the
\* failure.
C30_QueuedSendsFailBeforeAttachCallback ==
  [][(/\ failed' # <<>>
      /\ failed'[1].queue # <<>>
      /\ sAttachCallback.k = "uAttach") =>
        LET f == failed'[1]
        IN  \E a \in InvokedAt(sAttachCallback, f.err) :
              \A i \in 1..Len(f.queue) :
                \E j \in 1..(a - 1) : Invoked[j].cb = f.queue[i].cb]_vars

(***************************************************************************)
(* ClaimsBasedSecurityAgent: the timer of _removeExpiredPutTokens          *)
(***************************************************************************)
\* C31: at most one timer of _removeExpiredPutTokens is armed at any time,
\* whatever the sequence of putToken calls, responses, send callbacks and
\* timer firings.
C31_AtMostOneSweepTimer == Cardinality(timers) <= 1

\* C32: once a response with status-code 200 has completed the last
\* outstanding put token, no timer of _removeExpiredPutTokens is left to fire
\* until putToken is called again, and a run of _removeExpiredPutTokens that
\* leaves no put token outstanding arms no timer.
C32_NoTimerAfterDrain ==
  [][/\ (/\ op' = "message"
         /\ outstandingPutTokens # <<>>
         /\ outstandingPutTokens' = <<>>
         /\ \E i \in 1..Len(Invoked) : Invoked[i].cb.k = "uPut" /\ Invoked[i].err = None) =>
          timers' = {}
     /\ (op' = "timer" /\ outstandingPutTokens' = <<>>) =>
          Cardinality(timers') = Cardinality(timers) - 1]_vars

\* The invocations _removeExpiredPutTokens owes at time currentTime: the
\* callback of every expired put token, in the order of the list, with TimeoutError
RECURSIVE TimedOut(_, _)
TimedOut(list, currentTime) ==
  IF list = <<>>
    THEN <<>>
    ELSE (IF Head(list).expirationTime < currentTime
            THEN <<[cb |-> Head(list).cb, err |-> TimeoutError, msg |-> 0]>>
            ELSE <<>>) \o TimedOut(Tail(list), currentTime)

\* C33: outstandingPutTokens is always in the order of its expiration times,
\* and a run of _removeExpiredPutTokens at time now removes exactly the put
\* tokens whose expirationTime is before now, invokes the callback of each of
\* them once with TimeoutError, leaves the others outstanding in their order,
\* and arms the timer again if and only if put tokens remain.
C33_SweepRemovesExactlyExpired ==
  /\ [](\A i, j \in 1..Len(outstandingPutTokens) :
          i < j => outstandingPutTokens[i].expirationTime <= outstandingPutTokens[j].expirationTime)
  /\ [][op' = "timer" =>
          LET live(p) == ~(p.expirationTime < now)
          IN  /\ outstandingPutTokens' = SelectSeq(outstandingPutTokens, live)
              /\ Invoked = TimedOut(outstandingPutTokens, now)
              /\ Cardinality(timers') =
                   IF outstandingPutTokens' # <<>> THEN Cardinality(timers)
                                                  ELSE Cardinality(timers) - 1
              /\ outstandingPutTokens' # <<>> =>
                   \E t \in timers' \ timers :
                     /\ t.id = timeoutTimer'
                     /\ t.due = now + putTokenTimeOutExaminationInterval \div MillisecondsPerSecond]_vars

\* _removeExpiredPutTokens has just timed out the first of two outstanding put
\* tokens and left the second, which has not expired
C33_SweptOneOfTwo ==
  /\ op = "timer"
  /\ Len(outstandingPutTokens) = 1
  /\ outstandingPutTokens[1].expirationTime >= now
  /\ log # <<>>
  /\ log[Len(log)] = [cb |-> UserPutCb(1), err |-> TimeoutError, msg |-> 0]
  /\ timers # {}

\* The step completed exactly the outstanding put token with correlation id
\* c, with the outcome a response of this status-code gives, or changed
\* nothing when no put token has that correlation id
CompletesOnly(c, status) ==
  IF \A i \in 1..Len(outstandingPutTokens) : outstandingPutTokens[i].correlationId # c
    THEN outstandingPutTokens' = outstandingPutTokens /\ Invoked = <<>>
    ELSE \E i \in 1..Len(outstandingPutTokens) :
           /\ outstandingPutTokens[i].correlationId = c
           /\ outstandingPutTokens' = RemoveAt(outstandingPutTokens, i)
           /\ Invoked = <<[cb |-> outstandingPutTokens[i].cb,
                           err |-> IF status = 200 THEN None ELSE UnauthorizedError,
                           msg |-> 0]>>

C35_ClientListenerRemovedAfterAttach == sClientListeners = Len(sCreates)

(***************************************************************************)
(* AmqpTwinReceiver: messages of the downstream link                       *)
(***************************************************************************)
\* The events of this name the AmqpTwinReceiver emitted during the step
EmittedOf(eventName) ==
  SelectSeq(tEmitted', LAMBDA e : e.eventName = eventName)

\* C36: a message of the downstream link whose correlationId is that of a
\* recorded internal operation (the PUT or DELETE of the notifications) runs
\* the continuation of that operation once, removes the operation, and is not
\* emitted as a `response` event; every other message with a correlationId is
\* emitted as exactly one `response` event, with status 200 and the
\* correlationId as $rid.
C36_InternalResponsesConsumed ==
  [][(/\ op' = "twin message"
      /\ tReceived'[1].correlationId.present
      /\ tReceived'[1].correlationId.v # <<>>) =>
       LET c == tReceived'[1].correlationId.v
           ops == {o \in tInternalOperations : o.correlationId = c}
       IN  IF ops # {}
             THEN /\ tInternalOperations' = tInternalOperations \ ops
                  /\ EmittedOf(responseEvent) = <<>>
                  /\ Len(EmittedOf(subscribedEvent)) =
                       Cardinality({o \in ops : o.k = "subscribed"})
             ELSE /\ tInternalOperations' = tInternalOperations
                  /\ tEmitted' = <<[eventName |-> responseEvent, arg |-> <<"200">> \o c]>>]_vars

\* The answer to the PUT that subscribes to the notifications has arrived: the
\* operation is no longer recorded, `subscribed` was emitted and `response`
\* was not
C36_PutAnswered ==
  /\ op = "twin message"
  /\ tReceived # <<>>
  /\ \E n \in 1..uuids : tReceived[1].correlationId = Present(Uuid(n))
  /\ tEmitted = <<[eventName |-> subscribedEvent, arg |-> <<postEvent>>]>>
  /\ \A o \in tInternalOperations : Present(o.correlationId) # tReceived[1].correlationId

(***************************************************************************)
(* SenderLink and AmqpReceiverLinkFsm: detach while attaching              *)
(***************************************************************************)
\* C37: a detach issued while a SenderLink or AmqpReceiverLinkFsm is attaching
\* cancels that attach.  The state machine has left 'attaching' for
\* 'detaching' or 'detached', and the callback of the pending createSender or
\* createReceiver, when it runs later, does not take it to 'attached'; and a
\* link in 'attached' always holds a link object.
C37_DetachCancelsAttach ==
  /\ [][/\ sState \in {"detaching", "detached"} => sState' # "attached"
        /\ rState \in {"detaching", "detached"} => rState' # "attached"]_vars
  /\ [](sState = "attached" => sLinkObject # 0)
  /\ [](rState = "attached" => rLinkObject # 0)

(***************************************************************************)
(* ClaimsBasedSecurityAgent: putToken while the agent is not attached      *)
(***************************************************************************)
\* C38: a putToken is never silently lost, whatever the state of the agent at
\* the call: its callback has been invoked, or its put token is outstanding,
\* or the call is deferred in the state machine until the agent gets there.
C38_PutTokenNotLost ==
  \A i \in 1..putCalls :
    \/ Count(UserPutCb(i)) >= 1
    \/ Pending(UserPutCb(i)) >= 1
    \/ \E j \in 1..Len(cInputQueue) : cInputQueue[j].arg.cb = UserPutCb(i)

(***************************************************************************)
(* ClaimsBasedSecurityAgent: the listener of the receiver link's messages  *)
(***************************************************************************)
\* The listeners attaching._onEnter has registered on the 'message' event of
\* the receiver link
CbsMessageListeners ==
  {i \in 1..Len(rMessageListeners) : rMessageListeners[i] = CbsMessageCb}

\* C39: across the attach cycles of the agent, at most one listener of the
\* agent is registered on the 'message' event of the receiver link, so every
\* message of the $cbs receiver link is looked up and accepted exactly once.
C39_OneMessageListener ==
  /\ [](Cardinality(CbsMessageListeners) <= 1)
  /\ [][op' = "message" => Len(accepted') <= Len(accepted) + 1]_vars

(***************************************************************************)
(* AmqpTwinReceiver: the detach calls of 'disconnecting'                   *)
(***************************************************************************)
\* The receiver link object of the episode that began after the last
\* 'disconnecting': the one attachReceiverLink handed to the 'connecting'
\* state the machine is in, or went through to 'connected'; 0 if none
TNewEpisodeDownstream ==
  IF \/ tState = "connected"
     \/ tState = "connecting" /\ \E i \in 1..Len(tAttaches) : tAttaches[i].kind = "sender"
    THEN tDownstreamAmqpLink
    ELSE 0

\* C40: the detach calls started by one 'disconnecting' detach the links of
\* the episode that is torn down.  When a new 'connecting' has attached a new
\* receiver link before the client answers the detachSenderLink of the
\* previous episode, the detachReceiverLink that follows the answer is not
\* called on the new receiver link.
C40_TeardownTargetsItsOwnLinks ==
  [][(op' = "detach answered" /\ Head(tDetaches).kind = "sender") =>
       \A j \in 1..Len(TDetachesRequested) :
         (TDetachesRequested[j].kind = "receiver" /\ TDetachesRequested[j].link # 0) =>
           TDetachesRequested[j].link # TNewEpisodeDownstream]_vars

=============================================================================
